---- MODULE Spec2Model ----
(***************************************************************************)
(* CallGuardAI fraud-scoring engine (backend/app/ml/fraud_detector.py).    *)
(*                                                                         *)
(* Representation of the Python values:                                    *)
(*   - a str is a sequence of characters, each character a one-element     *)
(*     name ("O", "t", " "); "I_DOT" is U+0130 (capital I with dot above)  *)
(*     and "DOT" is U+0307 (combining dot above), the one character of     *)
(*     the alphabet whose str.lower() is two characters long;              *)
(*   - a confidence or a bundle value in [0,1] is an integer number of     *)
(*     hundredths (0.85 is 85), a weight an integer number of tenths       *)
(*     (1.5 is 15);                                                        *)
(*   - a category score is the exact fraction <<num, den>>, and            *)
(*     risk_score (rounded to one decimal by the code) is an integer       *)
(*     number of tenths (90.2 is 902);                                     *)
(*   - arithmetic is exact: the rounding error of IEEE doubles is not      *)
(*     modelled in the fraud engine; in the voice analyzer                 *)
(*     (backend/app/ml/ai_voice_detector.py) a float sum of two or more    *)
(*     score components that lands exactly on a limit, or on the other     *)
(*     sum, may compare either way (see Roundings).                        *)
(***************************************************************************)
EXTENDS Integers, Sequences, FiniteSets, TLC

VARIABLES
    rules,                \* the detector's tables (self.fraud_keywords, ...)
    hash_seed,            \* the process's string-hash seed (set iteration order)
    text,                 \* detect(): argument text
    acoustic_features,    \* detect(): argument acoustic_features (None or a dict)
    behavioral_data,      \* detect(): argument behavioral_data (None or a dict)
    result,               \* what the last detect(text, ...) call returned
    first_result,         \* what the first detect(text, ...) call returned
    other_result,         \* what the last detect call with other arguments returned
    calls,                \* the detect calls made on the detector, in order
    sig_list,             \* scoring stage: the Signal list under study
    sig_result,           \* scoring stage: scores / classification / confidence
    sig_prev,             \* scoring stage: list and result before the last change
    sig_op,               \* scoring stage: the last operation applied
    voice_input,          \* AIVoiceDetector.detect(): the audio file and language
    voice_result,         \* what AIVoiceDetector.detect() returned
    rule_analysis,        \* _calculate_classification(): argument analysis
    rule_result,          \* what _calculate_classification() returned
    active_connections,   \* manager.active_connections: client_id -> websocket
    analysis_sessions,    \* manager.analysis_sessions: the client_ids it holds
    handlers,             \* websocket_stream_analysis: the locals of each run
    received,             \* per websocket: the messages receive_text() returned
    sent,                 \* per websocket: the messages send_json() was given
    ext_input,            \* extractor under study: its kind and its argument
    ext_signals,          \* what the extractor returned for ext_input
    ext_prev,             \* what _analyze_patterns returned for the shorter text
    cls_scores,           \* _determine_classification(): argument scores
    cls_label             \* what _determine_classification() returned

detectVars == <<rules, hash_seed, text, acoustic_features, behavioral_data,
                result, first_result, other_result, calls>>
scoringVars == <<sig_list, sig_result, sig_prev, sig_op>>
voiceVars == <<voice_input, voice_result, rule_analysis, rule_result>>
streamVars == <<active_connections, analysis_sessions, handlers, received, sent>>
extractVars == <<ext_input, ext_signals, ext_prev>>
classifyVars == <<cls_scores, cls_label>>
vars == <<rules, hash_seed, text, acoustic_features, behavioral_data,
          result, first_result, other_result, calls,
          sig_list, sig_result, sig_prev, sig_op,
          voice_input, voice_result, rule_analysis, rule_result,
          active_connections, analysis_sessions, handlers, received, sent,
          ext_input, ext_signals, ext_prev, cls_scores, cls_label>>

\* An Optional value is a sequence of at most one element: None is <<>>,
\* the value v is <<v>>.
None == <<>>
Some(v) == <<v>>

----------------------------------------------------------------------------
(* Bounds of the model.                                                    *)

\* a text is the concatenation of at most MaxTokens vocabulary tokens
MaxTokens == 2
\* detect calls made on one detector in one run
MaxCalls == 3
\* length of the synthetic Signal lists drawn for the scoring stage
MaxSignals == 2

----------------------------------------------------------------------------
(* Strings.                                                                *)

UpperToLower ==
    ( "A" :> "a" @@ "B" :> "b" @@ "C" :> "c" @@ "D" :> "d" @@ "E" :> "e" @@
      "F" :> "f" @@ "G" :> "g" @@ "H" :> "h" @@ "I" :> "i" @@ "J" :> "j" @@
      "K" :> "k" @@ "L" :> "l" @@ "M" :> "m" @@ "N" :> "n" @@ "O" :> "o" @@
      "P" :> "p" @@ "Q" :> "q" @@ "R" :> "r" @@ "S" :> "s" @@ "T" :> "t" @@
      "U" :> "u" @@ "V" :> "v" @@ "W" :> "w" @@ "X" :> "x" @@ "Y" :> "y" @@
      "Z" :> "z" )

\* str.lower() of one character: U+0130 lowers to "i" followed by U+0307
LowerChar(c) ==
    IF c = "I_DOT" THEN <<"i", "DOT">>
    ELSE IF c \in DOMAIN UpperToLower THEN <<UpperToLower[c]>>
    ELSE <<c>>

RECURSIVE Lower(_)
\* str.lower()
Lower(s) == IF s = <<>> THEN <<>> ELSE LowerChar(Head(s)) \o Lower(Tail(s))

\* s[i:j] of Python (0-based, half-open), for 0 <= i <= j; j may exceed len(s)
Slice(s, i, j) ==
    LET hi == IF j > Len(s) THEN Len(s) ELSE j
    IN  IF i >= hi THEN <<>> ELSE SubSeq(s, i + 1, hi)

\* hay.startswith(needle, i)
MatchAt(hay, needle, i) ==
    /\ i + Len(needle) <= Len(hay)
    /\ SubSeq(hay, i + 1, i + Len(needle)) = needle

\* the positions (0-based) at which needle occurs in hay
Occurrences(hay, needle) ==
    {i \in 0..(Len(hay) - Len(needle)) : MatchAt(hay, needle, i)}

SetMin(S) == CHOOSE x \in S : \A y \in S : x <= y

\* str.find(): the first position of needle in hay, -1 when there is none
Find(hay, needle) ==
    LET occ == Occurrences(hay, needle)
    IN  IF occ = {} THEN -1 ELSE SetMin(occ)

\* needle in hay
Contains(hay, needle) == Occurrences(hay, needle) # {}

RECURSIVE Concat(_)
\* "".join(parts)
Concat(parts) ==
    IF parts = <<>> THEN <<>> ELSE Head(parts) \o Concat(Tail(parts))

Digits == <<"0", "1", "2", "3", "4", "5", "6", "7", "8", "9">>

RECURSIVE FormatInt(_)
\* f"{n}" of an int n >= 0
FormatInt(n) ==
    IF n < 10 THEN <<Digits[n + 1]>>
    ELSE FormatInt(n \div 10) \o <<Digits[(n % 10) + 1]>>

\* f"{x:.2f}" of x >= 0 given in hundredths
FormatFixed2(h) ==
    FormatInt(h \div 100) \o <<".">> \o
    <<Digits[((h \div 10) % 10) + 1], Digits[(h % 10) + 1]>>

----------------------------------------------------------------------------
(* The rule tables, FraudDetector._load_detection_rules.  Each table keeps *)
(* its iteration order; of the source's keywords and regular expressions   *)
(* the tables hold a sample of every row, among them every one that can    *)
(* match a text of Texts.                                                  *)

\* self.fraud_keywords, rows in dict iteration order
fraud_keywords ==
    << [category |-> "fraud", severity |-> "high",
        keywords |-> << <<"I","R","S">> >>],
       [category |-> "fraud", severity |-> "medium",
        keywords |-> << <<"v","e","r","i","f","y">> >>],
       [category |-> "phishing", severity |-> "high",
        keywords |-> << <<"C","V","V">>, <<"O","T","P">> >>],
       [category |-> "phishing", severity |-> "medium",
        keywords |-> << <<"v","e","r","i","f","y">> >>],
       [category |-> "spam", severity |-> "high",
        keywords |-> << <<"f","r","e","e"," ","o","f","f","e","r">> >>],
       [category |-> "spam", severity |-> "medium",
        keywords |-> << <<"d","i","s","c","o","u","n","t">> >>],
       [category |-> "robocall", severity |-> "high",
        keywords |-> << <<"p","r","e","-","r","e","c","o","r","d","e","d">> >>],
       [category |-> "robocall", severity |-> "medium",
        keywords |-> << <<"o","p","e","r","a","t","o","r">> >>] >>

\* self.hindi_keywords
hindi_keywords ==
    << [category |-> "fraud",
        keywords |-> << <<"K","Y","C"," ","u","p","d","a","t","e">>,
                        <<"C","B","I">> >>] >>

\* self.upi_fraud_keywords
upi_fraud_keywords ==
    << [severity |-> "high",
        keywords |-> << <<"G","P","a","y">>, <<"l","a","k","h">> >>],
       [severity |-> "medium",
        keywords |-> << <<"u","r","g","e","n","t">> >>] >>

(* A regular expression of the tables is a literal followed by an optional *)
(* (greedy) suffix: r"urgent(?:ly)?" is [lit |-> urgent, opt |-> ly]; of a *)
(* regular expression with alternatives one alternative is kept.           *)

\* self.urgency_patterns: r"immediately", r"urgent(?:ly)?"
urgency_patterns ==
    << [lit |-> <<"i","m","m","e","d","i","a","t","e","l","y">>, opt |-> <<>>],
       [lit |-> <<"u","r","g","e","n","t">>, opt |-> <<"l","y">>] >>

\* self.threat_patterns: r"arrest", r"sue", r"fine(?:d)?"
threat_patterns ==
    << [lit |-> <<"a","r","r","e","s","t">>, opt |-> <<>>],
       [lit |-> <<"s","u","e">>, opt |-> <<>>],
       [lit |-> <<"f","i","n","e">>, opt |-> <<"d">>] >>

\* self.request_patterns: r"(?:verify|confirm) your (?:identity|account|...)"
request_patterns ==
    << [lit |-> <<"v","e","r","i","f","y"," ","y","o","u","r"," ",
                  "a","c","c","o","u","n","t">>, opt |-> <<>>] >>

\* self.robocall_patterns: r"press (?:1|2|...)"
robocall_patterns ==
    << [lit |-> <<"p","r","e","s","s"," ","1">>, opt |-> <<>>] >>

\* the attributes _load_detection_rules assigns
load_detection_rules ==
    [fraud_keywords |-> fraud_keywords,
     hindi_keywords |-> hindi_keywords,
     upi_fraud_keywords |-> upi_fraud_keywords,
     urgency_patterns |-> urgency_patterns,
     threat_patterns |-> threat_patterns,
     request_patterns |-> request_patterns,
     robocall_patterns |-> robocall_patterns]

----------------------------------------------------------------------------
(* Signals.                                                                *)

\* FraudSignal(...)
FraudSignal(signal_type, category, description, confidence, weight, evidence) ==
    [signal_type |-> signal_type, category |-> category,
     description |-> description, confidence |-> confidence,
     weight |-> weight, evidence |-> evidence]

\* [f(x) for x in s]
MapSeq(s, f(_)) == [i \in 1..Len(s) |-> f(s[i])]

\* the keywords of one table row, each as many times as it occurs in the text
KeywordHits_PerOccurrence(keywords, text_lower) ==
    Concat(MapSeq(keywords,
                  LAMBDA k : [i \in 1..Cardinality(Occurrences(text_lower,
                                                               Lower(k)))
                                 |-> k]))

\* the keywords of one table row that occur in the lowered text, in row order
KeywordHits(keywords, text_lower) ==
    SelectSeq(keywords, LAMBDA k : Contains(text_lower, Lower(k)))

\* a keyword confidence table with the medium entry halved
SeverityConfidence_WeakMedium(severity) == IF severity = "high" THEN 90 ELSE 35

\* confidence of a keyword of the given severity (0.9 if high else 0.7)
SeverityConfidence(severity) == IF severity = "high" THEN 90 ELSE 70

\* a keyword weight table with the medium entry halved
SeverityWeight_LightMedium(severity) == IF severity = "high" THEN 15 ELSE 5

\* weight of a keyword of the given severity (1.5 if high else 1.0)
SeverityWeight(severity) == IF severity = "high" THEN 15 ELSE 10

\* the Signals of one row of self.fraud_keywords
CategoryRowSignals(row, text_lower) ==
    MapSeq(KeywordHits(row.keywords, text_lower),
           LAMBDA k : FraudSignal("keyword", row.category,
                                  <<"Detected", row.severity, "risk",
                                    row.category, "keyword", k>>,
                                  SeverityConfidence(row.severity),
                                  SeverityWeight(row.severity), <<k>>))

\* the Signals of one row of self.hindi_keywords
HindiRowSignals(row, text_lower) ==
    MapSeq(KeywordHits(row.keywords, text_lower),
           LAMBDA k : FraudSignal("keyword", row.category,
                                  <<"Detected", "Hindi", row.category,
                                    "keyword", k>>,
                                  85, 14, <<k>>))

\* UPI rows emitting the fixed strength of the Hindi rows
UpiRowSignals_FixedStrength(row, text_lower) ==
    MapSeq(KeywordHits(row.keywords, text_lower),
           LAMBDA k : FraudSignal("keyword", "fraud",
                                  <<"Detected", row.severity, "risk",
                                    "UPI/payment fraud", "keyword", k>>,
                                  85, 14, <<k>>))

\* the Signals of one row of self.upi_fraud_keywords
UpiRowSignals(row, text_lower) ==
    MapSeq(KeywordHits(row.keywords, text_lower),
           LAMBDA k : FraudSignal("keyword", "fraud",
                                  <<"Detected", row.severity, "risk",
                                    "UPI/payment fraud", "keyword", k>>,
                                  SeverityConfidence(row.severity),
                                  SeverityWeight(row.severity), <<k>>))

\* FraudDetector._analyze_linguistic
analyze_linguistic(tables, t) ==
    LET text_lower == Lower(t)
    IN  Concat(MapSeq(tables.fraud_keywords,
                      LAMBDA row : CategoryRowSignals(row, text_lower)))
        \o Concat(MapSeq(tables.hindi_keywords,
                         LAMBDA row : HindiRowSignals(row, text_lower)))
        \o Concat(MapSeq(tables.upi_fraud_keywords,
                         LAMBDA row : UpiRowSignals(row, text_lower)))

\* the match of pattern p at position i of s (<<>> when there is none)
PatternMatchAt(p, s, i) ==
    IF ~MatchAt(s, p.lit, i) THEN <<>>
    ELSE IF p.opt # <<>> /\ MatchAt(s, p.opt, i + Len(p.lit))
         THEN p.lit \o p.opt
         ELSE p.lit

RECURSIVE FindAllFrom(_, _, _)
\* re.findall(p, s) from position i on: the non-overlapping matches, left to right
FindAllFrom(p, s, i) ==
    LET starts == {j \in i..(Len(s) - Len(p.lit)) : MatchAt(s, p.lit, j)}
    IN  IF starts = {} THEN <<>>
        ELSE LET m == PatternMatchAt(p, s, SetMin(starts))
             IN  <<m>> \o FindAllFrom(p, s, SetMin(starts) + Len(m))

\* a pattern family that keeps one match of each of its patterns
FamilyMatches_OnePerPattern(patterns, text_lower) ==
    Concat(MapSeq(patterns, LAMBDA p : Slice(FindAllFrom(p, text_lower, 0), 0, 1)))

\* the matches of a pattern family: findall of each pattern, in table order
FamilyMatches(patterns, text_lower) ==
    Concat(MapSeq(patterns, LAMBDA p : FindAllFrom(p, text_lower, 0)))

\* min(a, b)
Min(a, b) == IF a <= b THEN a ELSE b

\* max(a, b)
Max(a, b) == IF a >= b THEN a ELSE b

\* FraudDetector._analyze_patterns
analyze_patterns(tables, t) ==
    LET text_lower == Lower(t)
        urgency_matches == FamilyMatches(tables.urgency_patterns, text_lower)
        threat_matches == FamilyMatches(tables.threat_patterns, text_lower)
        request_matches == FamilyMatches(tables.request_patterns, text_lower)
        robocall_matches == FamilyMatches(tables.robocall_patterns, text_lower)
    IN  (IF urgency_matches # <<>>
         THEN << FraudSignal("pattern", "general",
                             <<"High urgency language detected">>,
                             Min(50 + Len(urgency_matches) * 10, 95), 13,
                             Slice(urgency_matches, 0, 5)) >>
         ELSE <<>>)
        \o
        (IF threat_matches # <<>>
         THEN << FraudSignal("pattern", "fraud",
                             <<"Threatening language detected">>,
                             Min(60 + Len(threat_matches) * 10, 95), 15,
                             Slice(threat_matches, 0, 5)) >>
         ELSE <<>>)
        \o
        (IF request_matches # <<>>
         THEN << FraudSignal("pattern", "phishing",
                             <<"Request for sensitive information detected">>,
                             90, 16, Slice(request_matches, 0, 3)) >>
         ELSE <<>>)
        \o
        (IF robocall_matches # <<>>
         THEN << FraudSignal("pattern", "robocall",
                             <<"Automated call patterns detected">>,
                             85, 14, Slice(robocall_matches, 0, 3)) >>
         ELSE <<>>)

\* dict.get(key, default)
Get(d, key, default) == IF key \in DOMAIN d THEN d[key] ELSE default

\* the acoustic analysis with comparisons that also hold on the threshold
analyze_acoustic_NonStrict(features) ==
    (IF Get(features, "speaking_rate", 150) >= 200
     THEN << FraudSignal("acoustic", "general",
               <<"Unusually fast speaking rate detected">>, 70, 11,
               << <<"S","p","e","a","k","i","n","g">> >>) >>
     ELSE <<>>)
    \o
    (IF Get(features, "stress_level", 0) >= 70
     THEN << FraudSignal("acoustic", "general",
               <<"High voice stress detected">>,
               Get(features, "stress_level", 0), 12,
               << <<"S","t","r","e","s","s">> >>) >>
     ELSE <<>>)
    \o
    (IF Get(features, "synthetic_probability", 0) >= 60
     THEN << FraudSignal("acoustic", "robocall",
               <<"Possible synthetic/robotic voice detected">>,
               Get(features, "synthetic_probability", 0), 15,
               << <<"S","y","n","t","h","e","t","i","c">> >>) >>
     ELSE <<>>)
    \o
    (IF Get(features, "background_noise_type", "") = "call_center"
     THEN << FraudSignal("acoustic", "spam",
               <<"Call center background noise detected">>, 60, 10,
               << <<"C","a","l","l">> >>) >>
     ELSE <<>>)

\* FraudDetector._analyze_acoustic
analyze_acoustic(features) ==
    LET speaking_rate == Get(features, "speaking_rate", 150)
        stress_level == Get(features, "stress_level", 0)
        synthetic_score == Get(features, "synthetic_probability", 0)
    IN  (IF speaking_rate > 200
         THEN << FraudSignal("acoustic", "general",
                   <<"Unusually fast speaking rate detected">>, 70, 11,
                   << <<"S","p","e","a","k","i","n","g"," ","r","a","t","e",":"," ">>
                      \o FormatInt(speaking_rate) \o <<" ","W","P","M">> >>) >>
         ELSE <<>>)
        \o
        (IF stress_level > 70
         THEN << FraudSignal("acoustic", "general",
                   <<"High voice stress detected">>, stress_level, 12,
                   << <<"S","t","r","e","s","s"," ","l","e","v","e","l",":"," ">>
                      \o FormatFixed2(stress_level) >>) >>
         ELSE <<>>)
        \o
        (IF synthetic_score > 60
         THEN << FraudSignal("acoustic", "robocall",
                   <<"Possible synthetic/robotic voice detected">>,
                   synthetic_score, 15,
                   << <<"S","y","n","t","h","e","t","i","c"," ","p","r","o","b",
                        "a","b","i","l","i","t","y",":"," ">>
                      \o FormatFixed2(synthetic_score) >>) >>
         ELSE <<>>)
        \o
        (IF Get(features, "background_noise_type", "") = "call_center"
         THEN << FraudSignal("acoustic", "spam",
                   <<"Call center background noise detected">>, 60, 10,
                   << <<"C","a","l","l"," ","c","e","n","t","e","r"," ","a","m",
                        "b","i","e","n","t"," ","n","o","i","s","e">> >>) >>
         ELSE <<>>)

\* the behavioral analysis with a pressure_score that counts as 1.0 when the
\* key is missing
analyze_behavioral_MissingKeyTriggers(data) ==
    (IF Get(data, "interruptions_count", 0) > 5
     THEN << FraudSignal("behavioral", "general",
               <<"Aggressive caller behavior - frequent interruptions">>, 65, 11,
               << <<"H","i","g","h">> >>) >>
     ELSE <<>>)
    \o
    (IF Get(data, "pressure_score", 100) > 70
     THEN << FraudSignal("behavioral", "fraud",
               <<"High-pressure tactics detected">>,
               Get(data, "pressure_score", 70), 14,
               << <<"P","r","e","s","s","u","r","e">> >>) >>
     ELSE <<>>)
    \o
    (IF Get(data, "evasiveness_score", 0) > 60
     THEN << FraudSignal("behavioral", "fraud",
               <<"Evasive responses detected">>, 70, 12,
               << <<"C","a","l","l","e","r">> >>) >>
     ELSE <<>>)

\* FraudDetector._analyze_behavioral
analyze_behavioral(data) ==
    (IF Get(data, "interruptions_count", 0) > 5
     THEN << FraudSignal("behavioral", "general",
               <<"Aggressive caller behavior - frequent interruptions">>, 65, 11,
               << <<"H","i","g","h"," ","i","n","t","e","r","r","u","p","t","i",
                    "o","n"," ","c","o","u","n","t">> >>) >>
     ELSE <<>>)
    \o
    (IF Get(data, "pressure_score", 0) > 70
     THEN << FraudSignal("behavioral", "fraud",
               <<"High-pressure tactics detected">>,
               Get(data, "pressure_score", 70), 14,
               << <<"P","r","e","s","s","u","r","e"," ","t","a","c","t","i","c",
                    "s"," ","i","d","e","n","t","i","f","i","e","d">> >>) >>
     ELSE <<>>)
    \o
    (IF Get(data, "evasiveness_score", 0) > 60
     THEN << FraudSignal("behavioral", "fraud",
               <<"Evasive responses detected">>, 70, 12,
               << <<"C","a","l","l","e","r"," ","a","v","o","i","d","s"," ","d",
                    "i","r","e","c","t"," ","q","u","e","s","t","i","o","n","s">> >>) >>
     ELSE <<>>)

----------------------------------------------------------------------------
(* Scoring.                                                                *)

RECURSIVE GCD(_, _)
GCD(a, b) == IF b = 0 THEN a ELSE GCD(b, a % b)

\* the fraction n/d (n >= 0, d > 0) in lowest terms
Frac(n, d) == LET g == GCD(n, d) IN <<n \div g, d \div g>>

\* p < q, p <= q of fractions
FracLess(p, q) == p[1] * q[2] < q[1] * p[2]
FracLeq(p, q) == p[1] * q[2] <= q[1] * p[2]

\* the fraction p against the number h of hundredths
AboveHundredths(p, h) == p[1] * 100 > h * p[2]
AtLeastHundredths(p, h) == p[1] * 100 >= h * p[2]

RECURSIVE SumSeq(_)
SumSeq(s) == IF s = <<>> THEN 0 ELSE Head(s) + SumSeq(Tail(s))

\* the categories of category_scores, in dict order
ScoreCategories == <<"spam", "fraud", "phishing", "robocall", "general">>

\* confidence * weight and weight summed over the signals of category cat
CategorySum(signals, cat) ==
    LET own == SelectSeq(signals, LAMBDA s : s.category = cat)
    IN  [cw |-> SumSeq(MapSeq(own, LAMBDA s : s.confidence * s.weight)),
         w |-> SumSeq(MapSeq(own, LAMBDA s : s.weight))]

\* the normalisation without its clip to 1.0
CategoryScore_NoClip(signals, cat) ==
    LET t == CategorySum(signals, cat)
    IN  IF t.w > 0 THEN Frac(t.cw, 100 * Max(t.w, 10)) ELSE <<0, 1>>

\* the normalisation without the division by the summed weight
CategoryScore_NoNormalisation(signals, cat) ==
    LET t == CategorySum(signals, cat)
    IN  IF t.w > 0 THEN Frac(Min(t.cw, 1000), 1000) ELSE <<0, 1>>

\* category_scores[cat] after normalisation:
\* min(category_scores[cat] / max(category_weights[cat], 1), 1.0)
CategoryScore(signals, cat) ==
    LET t == CategorySum(signals, cat)
        den == 100 * Max(t.w, 10)
    IN  IF t.w > 0 THEN Frac(Min(t.cw, den), den) ELSE <<0, 1>>

\* round(p / q, 0) to the nearest integer, ties to the even one (p >= 0, q > 0)
RoundHalfEven(p, q) ==
    LET f == p \div q
        r == p % q
    IN  IF 2 * r < q THEN f
        ELSE IF 2 * r > q THEN f + 1
        ELSE IF f % 2 = 0 THEN f ELSE f + 1

\* p * q of fractions
FracTimes(p, q) ==
    LET g1 == GCD(p[1], q[2])
        g2 == GCD(q[1], p[2])
    IN  Frac((p[1] \div g1) * (q[1] \div g2), (p[2] \div g2) * (q[2] \div g1))

\* p * 1000 of a fraction 0 <= p < 1 cut after the last digit kept
RoundThousandths_Truncate(p) == (p[1] * 1000) \div p[2]

\* round(p * 1000) of a fraction 0 <= p < 1, ties to the even number; the
\* quotient is taken digit by digit
RoundThousandths(p) ==
    LET d1 == (p[1] * 10) \div p[2]
        r1 == (p[1] * 10) % p[2]
        d2 == (r1 * 10) \div p[2]
        r2 == (r1 * 10) % p[2]
        d3 == (r2 * 10) \div p[2]
        r3 == (r2 * 10) % p[2]
        f == d1 * 100 + d2 * 10 + d3
    IN  IF 2 * r3 < p[2] THEN f
        ELSE IF 2 * r3 > p[2] THEN f + 1
        ELSE IF f % 2 = 0 THEN f ELSE f + 1

\* FraudDetector._calculate_scores
calculate_scores(signals) ==
    LET cs == [cat \in {ScoreCategories[i] : i \in 1..5} |->
                  CategoryScore(signals, cat)]
        best(a, b) == IF FracLess(a, b) THEN b ELSE a
        max_category_score ==
            best(best(best(cs["spam"], cs["fraud"]), cs["phishing"]),
                 cs["robocall"])
        active_categories ==
            Cardinality({i \in 1..5 : AboveHundredths(cs[ScoreCategories[i]], 30)})
        \* category_boost in tenths
        category_boost ==
            IF active_categories > 1 THEN 10 + (active_categories - 1) ELSE 10
        \* general_modifier = 1 + general * 0.2, as a fraction
        general_modifier ==
            Frac(5 * cs["general"][2] + cs["general"][1], 5 * cs["general"][2])
        \* max_category_score * category_boost * general_modifier
        product ==
            FracTimes(Frac(max_category_score[1] * category_boost,
                           max_category_score[2] * 10),
                      general_modifier)
        \* round(min(product * 100, 100), 1), in tenths
        overall == IF FracLeq(<<1, 1>>, product) THEN 1000
                   ELSE RoundThousandths(product)
    IN  [spam |-> cs["spam"], fraud |-> cs["fraud"],
         phishing |-> cs["phishing"], robocall |-> cs["robocall"],
         overall |-> overall]

\* the thresholds with phishing at 0.5 like fraud and robocall
Threshold_PhishingHalf(cat) == IF cat = "spam" THEN 40 ELSE 50

\* thresholds of _determine_classification, in hundredths
Threshold(cat) ==
    CASE cat = "spam" -> 40
      [] cat = "fraud" -> 50
      [] cat = "phishing" -> 45
      [] cat = "robocall" -> 50

\* the highest category taken as the last key with the highest score
MaxCategory_LastAmongTies(scores) ==
    LET order == <<"spam", "fraud", "phishing", "robocall">>
        i == CHOOSE i \in 1..4 :
                /\ \A j \in 1..4 : FracLeq(scores[order[j]], scores[order[i]])
                /\ \A j \in (i + 1)..4 : FracLess(scores[order[j]], scores[order[i]])
    IN  order[i]

\* max(category_scores, key=...): the first key with the highest score
MaxCategory(scores) ==
    LET order == <<"spam", "fraud", "phishing", "robocall">>
        i == CHOOSE i \in 1..4 :
                /\ \A j \in 1..4 : FracLeq(scores[order[j]], scores[order[i]])
                /\ \A j \in 1..(i - 1) : FracLess(scores[order[j]], scores[order[i]])
    IN  order[i]

\* the classification with the moderate-risk fallback taken from 30 on
determine_classification_FallbackAt30(scores) ==
    IF scores.overall < 300 THEN "safe"
    ELSE LET max_category == MaxCategory(scores)
             max_score == scores[max_category]
         IN  IF AtLeastHundredths(max_score, Threshold(max_category))
             THEN max_category
             ELSE IF scores.overall >= 300 THEN "spam"
             ELSE "safe"

\* the classification without the moderate-risk fallback
determine_classification_NoFallback(scores) ==
    IF scores.overall < 300 THEN "safe"
    ELSE LET max_category == MaxCategory(scores)
             max_score == scores[max_category]
         IN  IF AtLeastHundredths(max_score, Threshold(max_category))
             THEN max_category
             ELSE "safe"

\* FraudDetector._determine_classification
determine_classification(scores) ==
    IF scores.overall < 300 THEN "safe"
    ELSE LET max_category == MaxCategory(scores)
             max_score == scores[max_category]
         IN  IF AtLeastHundredths(max_score, Threshold(max_category))
             THEN max_category
             ELSE IF scores.overall >= 500 THEN "spam"
             ELSE "safe"

\* the confidence without the case of the empty list: no signals, no confidence
calculate_confidence_NoEmptyCase(signals, scores) ==
    IF signals = <<>> THEN <<0, 1>>
    ELSE LET n == Len(signals)
             total == SumSeq(MapSeq(signals, LAMBDA s : s.confidence))
             signal_boost == Min(10 * n, 20)
         IN  Frac(Min(total + n * signal_boost, 99 * n), 100 * n)

\* FraudDetector._calculate_confidence
calculate_confidence(signals, scores) ==
    IF signals = <<>> THEN Frac(95, 100)
    ELSE LET n == Len(signals)
             total == SumSeq(MapSeq(signals, LAMBDA s : s.confidence))
             \* signal_boost = min(n / 10, 0.2), in hundredths
             signal_boost == Min(10 * n, 20)
         IN  Frac(Min(total + n * signal_boost, 99 * n), 100 * n)

----------------------------------------------------------------------------
(* The user-facing artifacts.                                              *)

\* the signals sorted by confidence * weight, descending; sorted() is stable,
\* so signals of equal key keep their order
SortedByStrength(signals) ==
    LET key(i) == signals[i].confidence * signals[i].weight
        rank(i) == Cardinality({j \in 1..Len(signals) :
                                   \/ key(j) > key(i)
                                   \/ key(j) = key(i) /\ j < i})
    IN  [r \in 1..Len(signals) |->
            signals[CHOOSE i \in 1..Len(signals) : rank(i) = r - 1]]

\* FraudDetector._generate_explanation; the explanation is kept as the
\* sequence of parts that " ".join() glues together
generate_explanation(signals, scores, classification) ==
    IF signals = <<>>
    THEN << <<"No suspicious indicators detected. The call appears to be safe.">> >>
    ELSE LET risk_level == IF scores.overall >= 700 THEN "high"
                           ELSE IF scores.overall >= 400 THEN "moderate"
                           ELSE "low"
             key_signals == Slice(SortedByStrength(signals), 0, 3)
         IN  << <<"This call has been classified as", classification,
                  "with a", risk_level, "risk score of",
                  RoundHalfEven(scores.overall, 10), "/100.">> >>
             \o << <<"Key findings:">> >>
             \o MapSeq(key_signals, LAMBDA s : <<"*">> \o s.description)
             \o (IF classification # "safe"
                 THEN << <<"Recommendation: Exercise caution.">> >>
                 ELSE <<>>)

\* the highlights of one signal: one per evidence string found in the text
SignalHighlights(text_lower, signal) ==
    LET found == SelectSeq(signal.evidence,
                           LAMBDA e : Find(text_lower, Lower(e)) # -1)
    IN  MapSeq(found,
               LAMBDA e : [text |-> e,
                           start |-> Find(text_lower, Lower(e)),
                           end |-> Find(text_lower, Lower(e)) + Len(e),
                           category |-> signal.category,
                           severity |-> IF signal.confidence > 80
                                        THEN "high" ELSE "medium"])

\* FraudDetector._extract_highlights
extract_highlights(t, signals) ==
    LET text_lower == Lower(t)
    IN  Concat(MapSeq(signals, LAMBDA s : SignalHighlights(text_lower, s)))

\* s without its repeated elements, first occurrences kept
Dedup(s) ==
    LET keep == {i \in 1..Len(s) : \A j \in 1..(i - 1) : s[j] # s[i]}
        nth(r) == CHOOSE i \in keep : Cardinality({j \in keep : j < i}) = r - 1
    IN  [r \in 1..Cardinality(keep) |-> s[nth(r)]]

\* reversed(s)
Reverse(s) == [i \in 1..Len(s) |-> s[Len(s) + 1 - i]]

\* the seeds of str.__hash__ a process may run under
HashSeeds == {0, 1}

\* list(keywords) in an order that changes from one call to the next
SetToList_PerCall(members, tables, seed) ==
    LET universe ==
            Dedup(Concat(MapSeq(tables.fraud_keywords, LAMBDA row : row.keywords))
                  \o Concat(MapSeq(tables.hindi_keywords, LAMBDA row : row.keywords))
                  \o Concat(MapSeq(tables.upi_fraud_keywords, LAMBDA row : row.keywords)))
        listed == SelectSeq(universe, LAMBDA k : k \in members)
    IN  IF (seed + Len(calls)) % 2 = 0 THEN listed ELSE Reverse(listed)

\* list(keywords) of a set of strings: the order is that of the strings'
\* hashes, fixed for the process by its hash seed.  Two of the orders are
\* kept: the strings in the order of the tables, and in the reverse order.
SetToList(members, tables, seed) ==
    LET universe ==
            Dedup(Concat(MapSeq(tables.fraud_keywords, LAMBDA row : row.keywords))
                  \o Concat(MapSeq(tables.hindi_keywords, LAMBDA row : row.keywords))
                  \o Concat(MapSeq(tables.upi_fraud_keywords, LAMBDA row : row.keywords)))
        listed == SelectSeq(universe, LAMBDA k : k \in members)
    IN  IF seed = 0 THEN listed ELSE Reverse(listed)

\* FraudDetector._extract_keywords
extract_keywords(signals, tables, seed) ==
    LET kw == SelectSeq(signals, LAMBDA s : s.signal_type = "keyword")
        keywords == UNION {{kw[i].evidence[j] : j \in 1..Len(kw[i].evidence)} :
                              i \in 1..Len(kw)}
    IN  SetToList(keywords, tables, seed)

\* the indicators with the description and severity of the last Signal of
\* each (signal_type, category) pair
extract_indicators_LastSeen(signals) ==
    LET first == {i \in 1..Len(signals) :
                     \A j \in 1..(i - 1) :
                        <<signals[j].signal_type, signals[j].category>>
                        # <<signals[i].signal_type, signals[i].category>>}
        nth(r) == CHOOSE i \in first : Cardinality({j \in first : j < i}) = r - 1
        last(i) == CHOOSE j \in i..Len(signals) :
                      /\ signals[j].signal_type = signals[i].signal_type
                      /\ signals[j].category = signals[i].category
                      /\ \A k \in (j + 1)..Len(signals) :
                            <<signals[k].signal_type, signals[k].category>>
                            # <<signals[i].signal_type, signals[i].category>>
    IN  [r \in 1..Cardinality(first) |->
            LET sg == signals[last(nth(r))]
            IN  [type |-> sg.signal_type, category |-> sg.category,
                 description |-> sg.description,
                 severity |-> IF sg.confidence > 80 THEN "high"
                              ELSE IF sg.confidence > 50 THEN "medium"
                              ELSE "low"]]

\* FraudDetector._extract_indicators
extract_indicators(signals) ==
    LET first == {i \in 1..Len(signals) :
                     \A j \in 1..(i - 1) :
                        <<signals[j].signal_type, signals[j].category>>
                        # <<signals[i].signal_type, signals[i].category>>}
        nth(r) == CHOOSE i \in first : Cardinality({j \in first : j < i}) = r - 1
    IN  [r \in 1..Cardinality(first) |->
            LET s == signals[nth(r)]
            IN  [type |-> s.signal_type, category |-> s.category,
                 description |-> s.description,
                 severity |-> IF s.confidence > 80 THEN "high"
                              ELSE IF s.confidence > 50 THEN "medium"
                              ELSE "low"]]

\* bool(d) of an Optional[Dict]: None and the empty dict are falsy
Truthy(d) == d # None /\ DOMAIN d[1] # {}

\* the Signal list detect() builds (steps 1 to 4)
collect_signals(tables, t, acoustic, behavioral) ==
    analyze_linguistic(tables, t)
    \o (IF Truthy(acoustic) THEN analyze_acoustic(acoustic[1]) ELSE <<>>)
    \o (IF Truthy(behavioral) THEN analyze_behavioral(behavioral[1]) ELSE <<>>)
    \o analyze_patterns(tables, t)

\* FraudDetector.detect
detect(tables, seed, t, acoustic, behavioral) ==
    LET signals == collect_signals(tables, t, acoustic, behavioral)
        scores == calculate_scores(signals)
        classification == determine_classification(scores)
    IN  [classification |-> classification,
         risk_score |-> scores.overall,
         spam_score |-> scores.spam,
         fraud_score |-> scores.fraud,
         phishing_score |-> scores.phishing,
         robocall_score |-> scores.robocall,
         signals |-> MapSeq(signals,
                            LAMBDA s : [type |-> s.signal_type,
                                        category |-> s.category,
                                        description |-> s.description,
                                        confidence |-> s.confidence,
                                        evidence |-> s.evidence]),
         suspicious_keywords |-> extract_keywords(signals, tables, seed),
         fraud_indicators |-> extract_indicators(signals),
         highlighted_phrases |-> extract_highlights(t, signals),
         explanation |-> generate_explanation(signals, scores, classification),
         confidence |-> calculate_confidence(signals, scores)]

----------------------------------------------------------------------------
(* The inputs.                                                             *)

\* the tokens texts are made of
Vocabulary ==
    << <<"o","t","p">>, <<"I_DOT">>,
       <<"v","e","r","i","f","y">>, <<"s","u","e">>,
       <<"u","r","g","e","n","t">>, <<"C","B","I">> >>

\* the example of the specification, "please verify your OTP now", and a text
\* with a keyword of every kind of table row: "verify OTP GPay urgent CBI"
SampleTexts ==
    { <<"p","l","e","a","s","e"," ","v","e","r","i","f","y"," ","y","o","u","r",
        " ","O","T","P"," ","n","o","w">>,
      <<"v","e","r","i","f","y"," ","O","T","P"," ","G","P","a","y"," ",
        "u","r","g","e","n","t"," ","C","B","I">> }

Texts ==
    {Concat(ts) : ts \in UNION {[1..k -> {Vocabulary[i] : i \in 1..Len(Vocabulary)}] :
                                  k \in 0..MaxTokens}}
    \cup SampleTexts

\* the dicts that give each key of a chosen subset of keys one of its values
Dicts(values) ==
    {d \in UNION {[K -> UNION {values[k] : k \in DOMAIN values}] :
                     K \in SUBSET (DOMAIN values)} :
        \A k \in DOMAIN d : d[k] \in values[k]}

\* acoustic_features: None, or a dict holding any subset of the keys; WPM for
\* speaking_rate, hundredths for the probabilities
AcousticBundles ==
    {None} \cup
    {Some(n @@ t) :
        n \in Dicts([speaking_rate |-> {250}, stress_level |-> {90},
                     synthetic_probability |-> {60, 80}]),
        t \in Dicts([background_noise_type |-> {"call_center"}])}

\* behavioral_data: None, or a dict holding any subset of the keys
BehavioralBundles ==
    {None} \cup
    {Some(d) : d \in Dicts([interruptions_count |-> {6},
                            pressure_score |-> {70, 90, 150},
                            evasiveness_score |-> {80}])}

\* the texts that are analysed together with acoustic and behavioral data
BundleTexts == { <<>>, <<"o","t","p">>, <<"u","r","g","e","n","t">> }

\* the arguments of detect: every text alone, and every pair of bundles with
\* the texts of BundleTexts
Inputs ==
    [text : Texts, acoustic_features : {None}, behavioral_data : {None}]
    \cup
    [text : BundleTexts, acoustic_features : AcousticBundles,
     behavioral_data : BehavioralBundles]

\* the arguments of the detect calls made between two calls under study
OtherTexts == { <<>>, <<"O","T","P">> }

----------------------------------------------------------------------------
(* Calls of detect on one detector of one process.                         *)

ScoringIdle ==
    /\ sig_list = <<>>
    /\ sig_result = None
    /\ sig_prev = None
    /\ sig_op = "idle"

VoiceIdle ==
    /\ voice_input = None
    /\ voice_result = None
    /\ rule_analysis = None
    /\ rule_result = None

\* no websocket was accepted: the ConnectionManager as constructed
StreamIdle ==
    /\ active_connections = <<>>
    /\ analysis_sessions = {}
    /\ handlers = <<>>
    /\ received = <<>>
    /\ sent = <<>>

\* no extractor was called on its own
ExtractIdle ==
    /\ ext_input = None
    /\ ext_signals = None
    /\ ext_prev = None

\* _determine_classification was not called on its own
ClassifyIdle ==
    /\ cls_scores = None
    /\ cls_label = None

Init ==
    /\ hash_seed \in HashSeeds
    /\ \E input \in Inputs :
          /\ text = input.text
          /\ acoustic_features = input.acoustic_features
          /\ behavioral_data = input.behavioral_data
    /\ result = None
    /\ first_result = None
    /\ other_result = None
    /\ calls = <<>>
    /\ ScoringIdle
    /\ VoiceIdle
    /\ StreamIdle
    /\ ExtractIdle
    /\ ClassifyIdle
    /\ rules = load_detection_rules

\* a detect call that removes the keywords it found from self.fraud_keywords
detect_writes_ConsumesKeywords(tables, t, acoustic, behavioral) ==
    [tables |-> [tables EXCEPT !.fraud_keywords =
                    [i \in DOMAIN @ |->
                        [@[i] EXCEPT !.keywords =
                            SelectSeq(@, LAMBDA k :
                                         ~Contains(Lower(t), Lower(k)))]]],
     text |-> t, acoustic_features |-> acoustic, behavioral_data |-> behavioral]

\* the detector's attributes and the caller's arguments when detect returns.
\* detect and its helpers assign no attribute of self and call only reading
\* methods on the tables and the arguments (text.lower(), .items(), .get(),
\* re.findall); every append, extend and update is on a list or set the call
\* created (signals, matches, explanation_parts, highlights, keywords,
\* indicators)
detect_writes(tables, t, acoustic, behavioral) ==
    [tables |-> tables, text |-> t, acoustic_features |-> acoustic,
     behavioral_data |-> behavioral]

\* detect(text, acoustic_features, behavioral_data)
Detect ==
    /\ Len(calls) < MaxCalls
    /\ result' = Some(detect(rules, hash_seed, text, acoustic_features,
                             behavioral_data))
    /\ first_result' = IF first_result = None THEN result' ELSE first_result
    /\ calls' = Append(calls, "study")
    /\ LET after == detect_writes(rules, text, acoustic_features,
                                  behavioral_data)
       IN  /\ rules' = after.tables
           /\ text' = after.text
           /\ acoustic_features' = after.acoustic_features
           /\ behavioral_data' = after.behavioral_data
    /\ UNCHANGED <<hash_seed, other_result>>
    /\ UNCHANGED scoringVars
    /\ UNCHANGED voiceVars
    /\ UNCHANGED streamVars
    /\ UNCHANGED extractVars
    /\ UNCHANGED classifyVars

\* a detect call with other arguments, made between two calls under study
DetectOther ==
    /\ Len(calls) < MaxCalls
    /\ first_result # None
    /\ \E t \in OtherTexts :
          /\ other_result' = Some(detect(rules, hash_seed, t, None, None))
          /\ rules' = detect_writes(rules, t, None, None).tables
    /\ calls' = Append(calls, "other")
    /\ UNCHANGED <<hash_seed, text, acoustic_features, behavioral_data,
                   result, first_result>>
    /\ UNCHANGED scoringVars
    /\ UNCHANGED voiceVars
    /\ UNCHANGED streamVars
    /\ UNCHANGED extractVars
    /\ UNCHANGED classifyVars

Next == Detect \/ DetectOther

Spec == Init /\ [][Next]_vars

----------------------------------------------------------------------------
(* The scoring stage of detect (steps 5, 6 and the confidence) on synthetic *)
(* Signal lists: every list of at most MaxSignals Signals of               *)
(* SignalAlphabet, then one more Signal appended, or the non-general       *)
(* Signals moved into one category.                                        *)

\* a synthetic Signal: only category, confidence and weight are read
Synthetic(category, strength) ==
    FraudSignal("keyword", category, <<"synthetic">>, strength[1], strength[2],
                <<>>)

\* <<confidence, weight>> of the synthetic Signals
Strengths ==
    { <<26, 10>>, <<30, 10>>, <<40, 10>>, <<45, 5>>, <<45, 10>>, <<75, 10>>,
      <<90, 15>>, <<95, 5>>, <<95, 15>> }

SignalAlphabet ==
    {Synthetic(c, st) : c \in {"fraud", "phishing"}, st \in Strengths}
    \cup {Synthetic(c, st) : c \in {"spam", "robocall"},
                             st \in { <<40, 10>>, <<90, 15>> }}
    \cup {Synthetic("general", <<75, 10>>)}

SignalLists == UNION {[1..k -> SignalAlphabet] : k \in 0..MaxSignals}

\* steps 5 and 6 of detect, and the confidence of its result
score_signals(signals) ==
    LET scores == calculate_scores(signals)
    IN  [scores |-> scores,
         classification |-> determine_classification(scores),
         confidence |-> calculate_confidence(signals, scores)]

\* the signals with every non-general Signal moved into category cat
Concentrated(signals, cat) ==
    MapSeq(signals, LAMBDA s : IF s.category = "general" THEN s
                               ELSE [s EXCEPT !.category = cat])

DetectIdle ==
    /\ hash_seed = 0
    /\ text = <<>>
    /\ acoustic_features = None
    /\ behavioral_data = None
    /\ result = None
    /\ first_result = None
    /\ other_result = None
    /\ calls = <<>>
    /\ rules = load_detection_rules

InitScoring ==
    /\ sig_list \in SignalLists
    /\ sig_result = None
    /\ sig_prev = None
    /\ sig_op = "new"
    /\ DetectIdle
    /\ VoiceIdle
    /\ StreamIdle
    /\ ExtractIdle
    /\ ClassifyIdle

\* the list is scored
ScoreSignals ==
    /\ sig_op = "new"
    /\ sig_result' = Some(score_signals(sig_list))
    /\ sig_op' = "scored"
    /\ UNCHANGED <<sig_list, sig_prev>>
    /\ UNCHANGED detectVars
    /\ UNCHANGED voiceVars
    /\ UNCHANGED streamVars
    /\ UNCHANGED extractVars
    /\ UNCHANGED classifyVars

\* one more Signal is appended and the list is scored again
AddSignal(s) ==
    /\ sig_op = "scored"
    /\ sig_prev' = Some([signals |-> sig_list, result |-> sig_result[1]])
    /\ sig_list' = Append(sig_list, s)
    /\ sig_result' = Some(score_signals(sig_list'))
    /\ sig_op' = "added"
    /\ UNCHANGED detectVars
    /\ UNCHANGED voiceVars
    /\ UNCHANGED streamVars
    /\ UNCHANGED extractVars
    /\ UNCHANGED classifyVars

\* the non-general Signals are moved into one category and the list is
\* scored again
Concentrate(cat) ==
    /\ sig_op = "scored"
    /\ sig_prev' = Some([signals |-> sig_list, result |-> sig_result[1]])
    /\ sig_list' = Concentrated(sig_list, cat)
    /\ sig_list' # sig_list
    /\ sig_result' = Some(score_signals(sig_list'))
    /\ sig_op' = "concentrated"
    /\ UNCHANGED detectVars
    /\ UNCHANGED voiceVars
    /\ UNCHANGED streamVars
    /\ UNCHANGED extractVars
    /\ UNCHANGED classifyVars

NextScoring ==
    \/ ScoreSignals
    \/ \E s \in SignalAlphabet : AddSignal(s)
    \/ \E cat \in {"spam", "fraud", "phishing", "robocall"} : Concentrate(cat)

SpecScoring == InitScoring /\ [][NextScoring]_vars

----------------------------------------------------------------------------
(* The voice analyzer, AIVoiceDetector (backend/app/ml/ai_voice_detector.py). *)
(* Feature values: spectral_flatness_mean, spectral_flatness_std,          *)
(* onset_regularity, zero_crossing_rate, zcr_std, rms_mean, rms_std and    *)
(* voiced_ratio are integer numbers of thousandths (0.95 is 950); the      *)
(* other features are integers in their own unit.  A score component is    *)
(* an integer number of hundredths (0.18 is 18).                           *)

\* LANGUAGE_NAMES
LANGUAGE_NAMES ==
    [ta |-> "Tamil", en |-> "English", hi |-> "Hindi", ml |-> "Malayalam",
     te |-> "Telugu"]

\* the thresholds with a pitch_std_min of 5
thresholds_LowPitchMin ==
    [pitch_std_min |-> 5, pitch_std_max |-> 150,
     spectral_flatness_threshold |-> 300, zero_crossing_rate_min |-> 20,
     hnr_min |-> 10, spectral_rolloff_min |-> 1500, mfcc_variance_min |-> 50,
     formant_regularity_max |-> 900]

\* self.thresholds
thresholds ==
    [pitch_std_min |-> 15, pitch_std_max |-> 150,
     spectral_flatness_threshold |-> 300, zero_crossing_rate_min |-> 20,
     hnr_min |-> 10, spectral_rolloff_min |-> 1500, mfcc_variance_min |-> 50,
     formant_regularity_max |-> 900]

\* AIVoiceDetector._default_features
default_features ==
    [duration |-> 0, pitch_mean |-> 150, pitch_std |-> 30, pitch_range |-> 100,
     spectral_centroid_mean |-> 2000, spectral_centroid_std |-> 500,
     spectral_flatness_mean |-> 200, spectral_flatness_std |-> 100,
     spectral_rolloff_mean |-> 4000, zero_crossing_rate |-> 100,
     zcr_std |-> 50, mfcc_variance_total |-> 100, rms_mean |-> 100,
     rms_std |-> 20, onset_regularity |-> 500, hnr_approx |-> 15,
     voiced_ratio |-> 700]

\* one appended indicator: the list it goes to, its text, its score component
Indicator(side, description, component) ==
    [side |-> side, description |-> description, component |-> component]

\* the indicators _analyze_features appends, in the order of its checks
FeatureIndicators(features) ==
    LET sf == Get(features, "spectral_flatness_mean", 200)
        sf_std == Get(features, "spectral_flatness_std", 100)
        sc_std == Get(features, "spectral_centroid_std", 500)
        pitch_std == Get(features, "pitch_std", 30)
        pitch_range == Get(features, "pitch_range", 100)
        onset_reg == Get(features, "onset_regularity", 500)
        zcr == Get(features, "zero_crossing_rate", 100)
        zcr_std == Get(features, "zcr_std", 50)
        mfcc_var == Get(features, "mfcc_variance_total", 100)
        hnr == Get(features, "hnr_approx", 15)
        rms_std == Get(features, "rms_std", 20)
        voiced == Get(features, "voiced_ratio", 700)
    IN  (IF sf < 100
         THEN <<Indicator("ai", "Unusually tonal spectral content (low flatness)", 15)>>
         ELSE IF sf > 350
         THEN <<Indicator("human", "Natural spectral variation", 10)>>
         ELSE <<>>)
        \o
        (IF sf_std < 50
         THEN <<Indicator("ai", "Spectral consistency too uniform (likely synthetic)", 12)>>
         ELSE <<>>)
        \o
        (IF sc_std < 200
         THEN <<Indicator("ai", "Limited spectral centroid variation", 10)>>
         ELSE IF sc_std > 800
         THEN <<Indicator("human", "Natural spectral dynamics", 10)>>
         ELSE <<>>)
        \o
        (IF pitch_std < thresholds.pitch_std_min
         THEN <<Indicator("ai", "Pitch variation too consistent (monotonic)", 18)>>
         ELSE IF pitch_std > thresholds.pitch_std_max
         THEN <<Indicator("ai", "Pitch variation too erratic", 10)>>
         ELSE <<Indicator("human", "Natural pitch variation", 12)>>)
        \o
        (IF pitch_range < 50
         THEN <<Indicator("ai", "Limited pitch range", 8)>>
         ELSE <<>>)
        \o
        (IF onset_reg > thresholds.formant_regularity_max
         THEN <<Indicator("ai", "Timing patterns too regular (machine-like)", 15)>>
         ELSE IF onset_reg < 300
         THEN <<Indicator("human", "Natural speech rhythm variations", 10)>>
         ELSE <<>>)
        \o
        (IF zcr < thresholds.zero_crossing_rate_min
         THEN <<Indicator("ai", "Abnormally low zero-crossing rate", 10)>>
         ELSE <<>>)
        \o
        (IF zcr_std < 20
         THEN <<Indicator("ai", "Zero-crossing rate too consistent", 8)>>
         ELSE <<>>)
        \o
        (IF mfcc_var < thresholds.mfcc_variance_min
         THEN <<Indicator("ai", "Limited timbral variation in voice", 12)>>
         ELSE <<Indicator("human", "Rich timbral characteristics", 10)>>)
        \o
        (IF hnr > 25
         THEN <<Indicator("ai", "Unusually clean harmonic structure (too perfect)", 10)>>
         ELSE IF hnr < thresholds.hnr_min
         THEN <<Indicator("human", "Natural voice characteristics with breath/noise", 8)>>
         ELSE <<>>)
        \o
        (IF rms_std < 10
         THEN <<Indicator("ai", "Energy dynamics too uniform", 8)>>
         ELSE IF rms_std > 50
         THEN <<Indicator("human", "Natural energy variation in speech", 8)>>
         ELSE <<>>)
        \o
        (IF voiced > 950
         THEN <<Indicator("ai", "Unnatural amount of voiced content", 5)>>
         ELSE <<>>)

\* AIVoiceDetector._analyze_features
analyze_features(features, language) ==
    LET found == FeatureIndicators(features)
        ai == SelectSeq(found, LAMBDA i : i.side = "ai")
        human == SelectSeq(found, LAMBDA i : i.side = "human")
    IN  [ai_indicators |-> MapSeq(ai, LAMBDA i : i.description),
         human_indicators |-> MapSeq(human, LAMBDA i : i.description),
         ai_score_components |-> MapSeq(ai, LAMBDA i : i.component),
         human_score_components |-> MapSeq(human, LAMBDA i : i.component),
         spectral |->
            [flatness |-> Get(features, "spectral_flatness_mean", 200),
             flatness_std |-> Get(features, "spectral_flatness_std", 100),
             centroid_std |-> Get(features, "spectral_centroid_std", 500)],
         prosody |->
            [pitch_std |-> Get(features, "pitch_std", 30),
             pitch_range |-> Get(features, "pitch_range", 100)],
         temporal |->
            [onset_regularity |-> Get(features, "onset_regularity", 500),
             zero_crossing_rate |-> Get(features, "zero_crossing_rate", 100),
             zcr_std |-> Get(features, "zcr_std", 50)]]

\* How the float operations fall: ai and human give the side of its exact
\* value on which each score sum lies (-1 below, 0 on it, 1 above), order
\* the side of human_score on which ai_score lies when the exact sums are
\* equal (a sum of at most one component is exact, and the sums of the same
\* components in the same order are the same float); score_up, percentage_up
\* and text_up tell whether round() goes up where the exact confidence lies
\* halfway between two results.
Roundings(analysis) ==
    LET sides(components) == IF Len(components) <= 1 THEN {0} ELSE {-1, 0, 1}
        ai == sides(analysis.ai_score_components)
        human == sides(analysis.human_score_components)
    IN  [ai : ai, human : human,
         order : IF \/ (ai = {0} /\ human = {0})
                    \/ analysis.ai_score_components
                          = analysis.human_score_components
                 THEN {0} ELSE {-1, 0, 1},
         score_up : BOOLEAN, percentage_up : BOOLEAN, text_up : BOOLEAN]

\* a float sum of hundredths >= a limit of hundredths
ScoreAtLeast(score, side, limit) == score > limit \/ (score = limit /\ side >= 0)

\* min(0.95, 0.5 + (score / total_score) * 0.45), total_score in hundredths
BaseConfidence(score, total_score) ==
    LET c == Frac(50 * total_score + 45 * score, 100 * total_score)
    IN  IF FracLess(<<19, 20>>, c) THEN <<19, 20>> ELSE c

\* 0.5 + (lead) * 0.3 for a lead in hundredths
ScaledConfidence(lead) == Frac(500 + 3 * lead, 1000)

\* the classification rule with a verdict given from one indicator on
calculate_classification_OneIndicatorVerdict(analysis, rounding) ==
    LET ai_score == SumSeq(analysis.ai_score_components)
        human_score == SumSeq(analysis.human_score_components)
        total_score == ai_score + human_score + 10
    IN  IF ai_score > human_score
        THEN IF Len(analysis.ai_indicators) >= 1 /\ ai_score >= 15
             THEN [classification |-> "ai_generated",
                   confidence |-> BaseConfidence(ai_score, total_score)]
             ELSE [classification |-> "uncertain", confidence |-> <<1, 2>>]
        ELSE IF human_score > ai_score
        THEN IF Len(analysis.human_indicators) >= 1 /\ human_score >= 10
             THEN [classification |-> "human",
                   confidence |-> BaseConfidence(human_score, total_score)]
             ELSE [classification |-> "uncertain", confidence |-> <<1, 2>>]
        ELSE [classification |-> "uncertain", confidence |-> <<1, 2>>]

\* the classification rule with the human side given the limits of the AI side
calculate_classification_SameLimits(analysis, rounding) ==
    LET ai_score == SumSeq(analysis.ai_score_components)
        human_score == SumSeq(analysis.human_score_components)
        ai_indicators == Len(analysis.ai_indicators)
        human_indicators == Len(analysis.human_indicators)
        total_score == ai_score + human_score + 10
        lead(score, other, indicators) ==
            LET confidence == BaseConfidence(score, total_score)
            IN  IF indicators >= 4 /\ score >= 35 THEN <<"full", confidence>>
                ELSE IF indicators >= 2 /\ score >= 25
                THEN <<"full", FracTimes(confidence, <<9, 10>>)>>
                ELSE IF indicators >= 1 /\ score >= 15
                THEN <<"uncertain", ScaledConfidence(score - other)>>
                ELSE <<"uncertain", <<1, 2>> >>
        decided(label, d) ==
            [classification |-> IF d[1] = "full" THEN label ELSE "uncertain",
             confidence |-> d[2]]
    IN  IF ai_score > human_score
        THEN decided("ai_generated", lead(ai_score, human_score, ai_indicators))
        ELSE IF human_score > ai_score
        THEN decided("human", lead(human_score, ai_score, human_indicators))
        ELSE [classification |-> "uncertain", confidence |-> <<1, 2>>]

\* the classification rule with the AI verdict given without a lead
calculate_classification_NoLead(analysis, rounding) ==
    LET ai_score == SumSeq(analysis.ai_score_components)
        human_score == SumSeq(analysis.human_score_components)
        total_score == ai_score + human_score + 10
    IN  IF Len(analysis.ai_indicators) >= 2 /\ ai_score >= 25
        THEN [classification |-> "ai_generated",
              confidence |-> FracTimes(BaseConfidence(ai_score, total_score),
                                       <<9, 10>>)]
        ELSE IF human_score > ai_score
                /\ Len(analysis.human_indicators) >= 2 /\ human_score >= 20
        THEN [classification |-> "human",
              confidence |-> FracTimes(BaseConfidence(human_score, total_score),
                                       <<9, 10>>)]
        ELSE [classification |-> "uncertain", confidence |-> <<1, 2>>]

\* AIVoiceDetector._calculate_classification
calculate_classification(analysis, rounding) ==
    LET ai_score == SumSeq(analysis.ai_score_components)
        human_score == SumSeq(analysis.human_score_components)
        ai_indicators == Len(analysis.ai_indicators)
        human_indicators == Len(analysis.human_indicators)
        total_score == ai_score + human_score + 10
        ai_leads == ai_score > human_score
                    \/ (ai_score = human_score /\ rounding.order > 0)
        human_leads == human_score > ai_score
                       \/ (ai_score = human_score /\ rounding.order < 0)
    IN  IF ai_leads
        THEN LET confidence == BaseConfidence(ai_score, total_score)
             IN  IF ai_indicators >= 4
                    /\ ScoreAtLeast(ai_score, rounding.ai, 35)
                 THEN [classification |-> "ai_generated",
                       confidence |-> confidence]
                 ELSE IF ai_indicators >= 2
                         /\ ScoreAtLeast(ai_score, rounding.ai, 25)
                 THEN [classification |-> "ai_generated",
                       confidence |-> FracTimes(confidence, <<9, 10>>)]
                 ELSE IF ai_indicators >= 1
                         /\ ScoreAtLeast(ai_score, rounding.ai, 15)
                 THEN [classification |-> "uncertain",
                       confidence |-> ScaledConfidence(ai_score - human_score)]
                 ELSE [classification |-> "uncertain", confidence |-> <<1, 2>>]
        ELSE IF human_leads
        THEN LET confidence == BaseConfidence(human_score, total_score)
             IN  IF human_indicators >= 3
                    /\ ScoreAtLeast(human_score, rounding.human, 30)
                 THEN [classification |-> "human", confidence |-> confidence]
                 ELSE IF human_indicators >= 2
                         /\ ScoreAtLeast(human_score, rounding.human, 20)
                 THEN [classification |-> "human",
                       confidence |-> FracTimes(confidence, <<9, 10>>)]
                 ELSE [classification |-> "uncertain",
                       confidence |-> ScaledConfidence(human_score - ai_score)]
        ELSE [classification |-> "uncertain", confidence |-> <<1, 2>>]

\* round(confidence * scale) of a fraction; a float halfway between two
\* results goes up or down with the error of its representation
RoundScaled(c, scale, up) ==
    LET f == (c[1] * scale) \div c[2]
        r == (c[1] * scale) % c[2]
    IN  IF 2 * r < c[2] THEN f
        ELSE IF 2 * r > c[2] THEN f + 1
        ELSE IF up THEN f + 1 ELSE f

\* AIVoiceDetector._generate_explanation: the template taken, the language
\* name, the confidence in tenths of a percent and the indicators listed
voice_generate_explanation(classification, confidence, analysis, language, rounding) ==
    LET lang_name == Get(LANGUAGE_NAMES, language, "Unknown")
        confidence_pct == RoundScaled(confidence, 1000, rounding.text_up)
    IN  IF classification = "ai_generated"
        THEN [template |-> "AI-GENERATED", lang_name |-> lang_name,
              confidence_pct |-> confidence_pct,
              listed |-> <<Slice(analysis.ai_indicators, 0, 5)>>]
        ELSE IF classification = "human"
        THEN [template |-> "HUMAN", lang_name |-> lang_name,
              confidence_pct |-> confidence_pct,
              listed |-> <<Slice(analysis.human_indicators, 0, 5)>>]
        ELSE [template |-> "UNCERTAIN", lang_name |-> lang_name,
              confidence_pct |-> confidence_pct,
              listed |-> <<Slice(analysis.ai_indicators, 0, 3),
                           Slice(analysis.human_indicators, 0, 3)>>]

\* AIVoiceDetector._error_result
error_result(error_msg) ==
    [classification |-> "error",
     is_ai_generated |-> None,
     confidence_score |-> 0,
     confidence_percentage |-> 0,
     language |-> "unknown",
     language_name |-> "Unknown",
     explanation |-> <<"Error during analysis: ", error_msg>>,
     analysis_details |-> <<>>,
     status |-> "error",
     error |-> error_msg]

\* AIVoiceDetector._extract_features: the extracted bundle, or the default
\* features when the extraction raised
extract_features(input) ==
    IF input.extraction = "failed" THEN default_features ELSE input.features

\* language or await self._detect_language(audio_path)
DetectedLanguage(input) ==
    IF input.language # None /\ input.language[1] # ""
    THEN input.language[1] ELSE input.detected

\* AIVoiceDetector.detect on an audio file described by input
voice_detect(input, rounding) ==
    IF ~input.exists THEN error_result("Audio file not found")
    ELSE LET features == extract_features(input)
             detected_language == DetectedLanguage(input)
             analysis == analyze_features(features, detected_language)
             decided == calculate_classification(analysis, rounding)
         IN  [classification |-> decided.classification,
              is_ai_generated |-> Some(decided.classification = "ai_generated"),
              confidence_score |->
                  RoundScaled(decided.confidence, 10000, rounding.score_up),
              confidence_percentage |->
                  RoundScaled(decided.confidence, 10000, rounding.percentage_up),
              language |-> detected_language,
              language_name |-> Get(LANGUAGE_NAMES, detected_language, "Unknown"),
              explanation |->
                  voice_generate_explanation(decided.classification,
                                             decided.confidence, analysis,
                                             detected_language, rounding),
              analysis_details |->
                  [features_analyzed |->
                       <<"ai_indicators", "human_indicators",
                         "ai_score_components", "human_score_components",
                         "spectral", "prosody", "temporal">>,
                   ai_indicators |-> analysis.ai_indicators,
                   human_indicators |-> analysis.human_indicators,
                   spectral_analysis |-> analysis.spectral,
                   temporal_analysis |-> analysis.temporal,
                   prosody_analysis |-> analysis.prosody],
              status |-> "success"]

\* the feature bundles: every subset of the keys of MainFeatures, and every
\* subset of the keys of ExtraFeatures beside the pitch of a monotone or of a
\* natural voice
MainFeatures ==
    [pitch_std |-> {5, 30, 200}, onset_regularity |-> {100, 950},
     mfcc_variance_total |-> {20, 100}, hnr_approx |-> {5, 30},
     spectral_flatness_mean |-> {50, 400}, rms_std |-> {5, 100}]

ExtraFeatures ==
    [spectral_flatness_std |-> {10}, spectral_centroid_std |-> {100, 900},
     pitch_range |-> {20}, zero_crossing_rate |-> {10}, zcr_std |-> {10},
     voiced_ratio |-> {990}]

FeatureBundles ==
    Dicts(MainFeatures)
    \cup {a @@ b : a \in Dicts([pitch_std |-> {5, 30}]),
                   b \in Dicts(ExtraFeatures)}

\* the calls of AIVoiceDetector.detect: an audio file whose features are
\* extracted, with or without a language; and a file that is missing, or
\* whose extraction fails
VoiceInputs ==
    [exists : {TRUE}, extraction : {"ok"}, features : FeatureBundles,
     language : {None}, detected : {"en"}]
    \cup
    [exists : BOOLEAN, extraction : {"ok", "failed"},
     features : {<<>>, [pitch_std |-> 5, mfcc_variance_total |-> 20]},
     language : {None, Some(""), Some("hi"), Some("fr")},
     detected : {"en", "ta"}]

InitVoice ==
    /\ voice_input \in {Some(input) : input \in VoiceInputs}
    /\ voice_result = None
    /\ rule_analysis = None
    /\ rule_result = None
    /\ ScoringIdle
    /\ DetectIdle
    /\ StreamIdle
    /\ ExtractIdle
    /\ ClassifyIdle

\* await detector.detect(audio_path, language)
VoiceDetect ==
    /\ voice_result = None
    /\ \E rounding \in Roundings(analyze_features(extract_features(voice_input[1]),
                                                   DetectedLanguage(voice_input[1]))) :
          voice_result' = Some(voice_detect(voice_input[1], rounding))
    /\ UNCHANGED <<voice_input, rule_analysis, rule_result>>
    /\ UNCHANGED detectVars
    /\ UNCHANGED scoringVars
    /\ UNCHANGED streamVars
    /\ UNCHANGED extractVars
    /\ UNCHANGED classifyVars

NextVoice == VoiceDetect

SpecVoice == InitVoice /\ [][NextVoice]_vars

\* an analysis with the given scores (hundredths) and numbers of indicators
SyntheticAnalysis(ai_score, human_score, ai_indicators, human_indicators) ==
    [ai_indicators |-> [i \in 1..ai_indicators |-> "AI indicator"],
     human_indicators |-> [i \in 1..human_indicators |-> "human indicator"],
     ai_score_components |-> <<ai_score>>,
     human_score_components |-> <<human_score>>]

\* the scores the rule is applied to: on and beside each of its limits
RuleScores == {0, 10, 14, 15, 19, 20, 24, 25, 29, 30, 34, 35, 60}

MaxIndicators == 4

RuleAnalyses ==
    {SyntheticAnalysis(a, h, na, nh) :
        a \in RuleScores, h \in RuleScores,
        na \in 0..MaxIndicators, nh \in 0..MaxIndicators}

InitVoiceRule ==
    /\ rule_analysis \in {Some(analysis) : analysis \in RuleAnalyses}
    /\ rule_result = None
    /\ voice_input = None
    /\ voice_result = None
    /\ ScoringIdle
    /\ DetectIdle
    /\ StreamIdle
    /\ ExtractIdle
    /\ ClassifyIdle

\* self._calculate_classification(analysis)
CalculateClassification ==
    /\ rule_result = None
    /\ \E rounding \in Roundings(rule_analysis[1]) :
          rule_result' = Some(calculate_classification(rule_analysis[1], rounding))
    /\ UNCHANGED <<voice_input, voice_result, rule_analysis>>
    /\ UNCHANGED detectVars
    /\ UNCHANGED scoringVars
    /\ UNCHANGED streamVars
    /\ UNCHANGED extractVars
    /\ UNCHANGED classifyVars

NextVoiceRule == CalculateClassification

SpecVoiceRule == InitVoiceRule /\ [][NextVoiceRule]_vars

----------------------------------------------------------------------------
(* The streaming endpoint /stream/{client_id}: websocket_stream_analysis   *)
(* and the ConnectionManager it shares with every other run of itself.     *)
(* One action is one iteration of the handler's loop: receive_text(), the  *)
(* branch for the message and the sends it makes.  The handler's call_id   *)
(* (a random uuid) is the number of its websocket.                         *)

MaxSockets == 2

MaxMessages == 2

\* the websockets the server accepts
Sockets == 1..MaxSockets

\* the client_id path parameters the clients connect with
ClientIds == {"a", "b"}

\* the text of the text_chunk messages
ChunkTexts == { <<"o","t","p">> }

\* ConnectionManager.connect: the two dict entries of client_id
connect(conns, sessions, websocket, client_id) ==
    [active_connections |->
        [c \in DOMAIN conns \cup {client_id} |->
            IF c = client_id THEN websocket ELSE conns[c]],
     analysis_sessions |-> sessions \cup {client_id}]

\* ConnectionManager.disconnect
disconnect(conns, sessions, client_id) ==
    [active_connections |-> [c \in DOMAIN conns \ {client_id} |-> conns[c]],
     analysis_sessions |-> sessions \ {client_id}]

\* ConnectionManager.send_message, called by the handler of websocket: the
\* message goes to the websocket registered for client_id, if there is one
send_message(conns, out, client_id, websocket, message) ==
    IF client_id \in DOMAIN conns
    THEN [out EXCEPT ![conns[client_id]] = Append(@, message)]
    ELSE out

\* AnalysisService.quick_text_analysis: the risk_score
quick_text_analysis(t) ==
    IF t = <<>> THEN 0
    ELSE detect(load_detection_rules, hash_seed, t, None, None).risk_score

\* AnalysisService.process_stream_chunk
process_stream_chunk(accumulated_text, chunk_id) ==
    [transcript |-> accumulated_text,
     new_text |-> <<>>,
     risk_score |-> quick_text_analysis(accumulated_text),
     chunk_id |-> chunk_id]

\* the locals of a run of websocket_stream_analysis
Handler(state, client_id, accumulated_text, chunk_count) ==
    [state |-> state, client_id |-> client_id,
     accumulated_text |-> accumulated_text, chunk_count |-> chunk_count]

InitStream ==
    /\ active_connections = <<>>
    /\ analysis_sessions = {}
    /\ handlers = [w \in Sockets |-> Handler("new", "", <<>>, 0)]
    /\ received = [w \in Sockets |-> <<>>]
    /\ sent = [w \in Sockets |-> <<>>]
    /\ DetectIdle
    /\ ScoringIdle
    /\ VoiceIdle
    /\ ExtractIdle
    /\ ClassifyIdle

\* the loop of the handler of websocket w is at receive_text() and the
\* client has a message left to send
Receiving(w) ==
    /\ handlers[w].state = "open"
    /\ Len(received[w]) < MaxMessages

\* the handler of w leaves the loop: the finally clause
Leave(w) ==
    LET left == disconnect(active_connections, analysis_sessions,
                           handlers[w].client_id)
    IN  /\ active_connections' = left.active_connections
        /\ analysis_sessions' = left.analysis_sessions

\* a client opens /stream/{client_id}: manager.connect and the confirmation
Connect ==
    \E w \in Sockets, client_id \in ClientIds :
        /\ handlers[w].state = "new"
        /\ LET joined == connect(active_connections, analysis_sessions, w,
                                 client_id)
           IN  /\ active_connections' = joined.active_connections
               /\ analysis_sessions' = joined.analysis_sessions
               /\ sent' = send_message(joined.active_connections, sent,
                                       client_id, w,
                                       [type |-> "connected", call_id |-> w])
        /\ handlers' = [handlers EXCEPT ![w] = Handler("open", client_id, <<>>, 0)]
        /\ UNCHANGED received
        /\ UNCHANGED detectVars
        /\ UNCHANGED scoringVars
        /\ UNCHANGED voiceVars
        /\ UNCHANGED extractVars
        /\ UNCHANGED classifyVars

\* message type "audio_chunk"
ReceiveAudioChunk ==
    \E w \in Sockets, is_final \in BOOLEAN :
        /\ Receiving(w)
        /\ received' = [received EXCEPT ![w] =
                           Append(@, [type |-> "audio_chunk",
                                      is_final |-> is_final])]
        /\ \E chunk \in {process_stream_chunk(handlers[w].accumulated_text,
                                               handlers[w].chunk_count + 1)} :
              LET h == handlers[w]
                  chunk_count == chunk.chunk_id
                  accumulated_text == chunk.transcript
                  partial_result == [type |-> "partial_result",
                                     chunk_id |-> chunk_count,
                                     partial_transcript |-> chunk.new_text,
                                     current_risk_score |-> chunk.risk_score,
                                     is_processing |-> ~is_final]
                  final_result == [type |-> "final_result", call_id |-> w,
                                   transcript |-> accumulated_text]
              IN  IF is_final
                  THEN /\ sent' = send_message(
                                      active_connections,
                                      send_message(active_connections, sent,
                                                   h.client_id, w,
                                                   partial_result),
                                      h.client_id, w, final_result)
                       /\ handlers' = [handlers EXCEPT ![w] =
                                          Handler("closed", h.client_id,
                                                  accumulated_text,
                                                  chunk_count)]
                       /\ Leave(w)
                  ELSE /\ sent' = send_message(active_connections, sent,
                                               h.client_id, w, partial_result)
                       /\ handlers' = [handlers EXCEPT ![w] =
                                          Handler("open", h.client_id,
                                                  accumulated_text,
                                                  chunk_count)]
                       /\ UNCHANGED <<active_connections, analysis_sessions>>
        /\ UNCHANGED detectVars
        /\ UNCHANGED scoringVars
        /\ UNCHANGED voiceVars
        /\ UNCHANGED extractVars
        /\ UNCHANGED classifyVars

\* message type "text_chunk"
ReceiveTextChunk ==
    \E w \in Sockets, t \in ChunkTexts :
        /\ Receiving(w)
        /\ received' = [received EXCEPT ![w] =
                           Append(@, [type |-> "text_chunk", text |-> t])]
        /\ LET h == handlers[w]
               accumulated_text == h.accumulated_text \o <<" ">> \o t
           IN  /\ sent' = send_message(active_connections, sent, h.client_id, w,
                              [type |-> "text_analysis",
                               current_risk_score |->
                                   quick_text_analysis(accumulated_text)])
               /\ handlers' = [handlers EXCEPT ![w] =
                                  Handler("open", h.client_id, accumulated_text,
                                          h.chunk_count)]
        /\ UNCHANGED <<active_connections, analysis_sessions>>
        /\ UNCHANGED detectVars
        /\ UNCHANGED scoringVars
        /\ UNCHANGED voiceVars
        /\ UNCHANGED extractVars
        /\ UNCHANGED classifyVars

\* message type "ping"
ReceivePing ==
    \E w \in Sockets :
        /\ Receiving(w)
        /\ received' = [received EXCEPT ![w] = Append(@, [type |-> "ping"])]
        /\ sent' = send_message(active_connections, sent, handlers[w].client_id,
                                w, [type |-> "pong"])
        /\ UNCHANGED <<active_connections, analysis_sessions, handlers>>
        /\ UNCHANGED detectVars
        /\ UNCHANGED scoringVars
        /\ UNCHANGED voiceVars
        /\ UNCHANGED extractVars
        /\ UNCHANGED classifyVars

\* message type "end": break
ReceiveEnd ==
    \E w \in Sockets :
        /\ Receiving(w)
        /\ received' = [received EXCEPT ![w] = Append(@, [type |-> "end"])]
        /\ handlers' = [handlers EXCEPT ![w].state = "closed"]
        /\ Leave(w)
        /\ UNCHANGED sent
        /\ UNCHANGED detectVars
        /\ UNCHANGED scoringVars
        /\ UNCHANGED voiceVars
        /\ UNCHANGED extractVars
        /\ UNCHANGED classifyVars

\* a message of a type no branch handles: the loop goes on
ReceiveUnknown ==
    \E w \in Sockets :
        /\ Receiving(w)
        /\ received' = [received EXCEPT ![w] = Append(@, [type |-> "status"])]
        /\ UNCHANGED <<active_connections, analysis_sessions, handlers, sent>>
        /\ UNCHANGED detectVars
        /\ UNCHANGED scoringVars
        /\ UNCHANGED voiceVars
        /\ UNCHANGED extractVars
        /\ UNCHANGED classifyVars

\* a text json.loads or message.get raises on: except Exception sends the
\* error message, then the finally clause
ReceiveMalformed ==
    \E w \in Sockets :
        /\ Receiving(w)
        /\ received' = [received EXCEPT ![w] = Append(@, [type |-> "malformed"])]
        /\ sent' = send_message(active_connections, sent, handlers[w].client_id,
                                w, [type |-> "error"])
        /\ handlers' = [handlers EXCEPT ![w].state = "closed"]
        /\ Leave(w)
        /\ UNCHANGED detectVars
        /\ UNCHANGED scoringVars
        /\ UNCHANGED voiceVars
        /\ UNCHANGED extractVars
        /\ UNCHANGED classifyVars

\* the client closes the websocket: receive_text() raises WebSocketDisconnect
ClientDisconnect ==
    \E w \in Sockets :
        /\ handlers[w].state = "open"
        /\ handlers' = [handlers EXCEPT ![w].state = "closed"]
        /\ Leave(w)
        /\ UNCHANGED <<received, sent>>
        /\ UNCHANGED detectVars
        /\ UNCHANGED scoringVars
        /\ UNCHANGED voiceVars
        /\ UNCHANGED extractVars
        /\ UNCHANGED classifyVars

NextStream ==
    \/ Connect
    \/ ReceiveAudioChunk
    \/ ReceiveTextChunk
    \/ ReceivePing
    \/ ReceiveEnd
    \/ ReceiveUnknown
    \/ ReceiveMalformed
    \/ ClientDisconnect

SpecStream == InitStream /\ [][NextStream]_vars

----------------------------------------------------------------------------
(* The extractors on their own: _analyze_patterns on texts that repeat     *)
(* matches of its four families (the text is the concatenation of the      *)
(* pieces of ext_input), _analyze_acoustic and _analyze_behavioral on      *)
(* bundles with values below, on and above each threshold.                 *)

MaxPatternTokens == 6

\* the pieces the pattern texts are made of: a match of each urgency
\* pattern, of a threat, a robocall and a request pattern
PatternTokens ==
    { <<"U","r","g","e","n","t","l","y"," ">>,
      <<"i","m","m","e","d","i","a","t","e","l","y"," ">>,
      <<"s","u","e"," ">>,
      <<"p","r","e","s","s"," ","1"," ">>,
      <<"v","e","r","i","f","y"," ","y","o","u","r"," ",
        "a","c","c","o","u","n","t"," ">> }

\* features of _analyze_acoustic: any subset of the keys
ExtractAcoustic ==
    {n @@ t :
        n \in Dicts([speaking_rate |-> {150, 200, 201, 250},
                     stress_level |-> {0, 70, 71, 90},
                     synthetic_probability |-> {60, 61, 80}]),
        t \in Dicts([background_noise_type |-> {"call_center", "office"}])}

\* data of _analyze_behavioral: any subset of the keys
ExtractBehavioral ==
    Dicts([interruptions_count |-> {5, 6, 9},
           pressure_score |-> {70, 71, 90, 150},
           evasiveness_score |-> {60, 61, 80}])

InitExtract ==
    /\ ext_input \in [kind : {"patterns"}, pieces : {<<>>}]
                     \cup [kind : {"acoustic"}, features : ExtractAcoustic]
                     \cup [kind : {"behavioral"}, data : ExtractBehavioral]
    /\ ext_signals = None
    /\ ext_prev = None
    /\ DetectIdle
    /\ ScoringIdle
    /\ VoiceIdle
    /\ StreamIdle
    /\ ClassifyIdle

\* self._analyze_patterns(text)
AnalyzePatterns ==
    /\ ext_input.kind = "patterns"
    /\ ext_signals = None
    /\ ext_signals' = Some(analyze_patterns(load_detection_rules,
                                            Concat(ext_input.pieces)))
    /\ UNCHANGED <<ext_input, ext_prev>>
    /\ UNCHANGED detectVars
    /\ UNCHANGED scoringVars
    /\ UNCHANGED voiceVars
    /\ UNCHANGED streamVars
    /\ UNCHANGED classifyVars

\* self._analyze_patterns on the text with one more piece at its end
ExtendText ==
    /\ ext_input.kind = "patterns"
    /\ ext_signals # None
    /\ Len(ext_input.pieces) < MaxPatternTokens
    /\ \E token \in PatternTokens :
          /\ ext_input' = [ext_input EXCEPT !.pieces = Append(@, token)]
          /\ ext_signals' = Some(analyze_patterns(load_detection_rules,
                                     Concat(Append(ext_input.pieces, token))))
    /\ ext_prev' = ext_signals
    /\ UNCHANGED detectVars
    /\ UNCHANGED scoringVars
    /\ UNCHANGED voiceVars
    /\ UNCHANGED streamVars
    /\ UNCHANGED classifyVars

\* self._analyze_acoustic(features)
AnalyzeAcoustic ==
    /\ ext_input.kind = "acoustic"
    /\ ext_signals = None
    /\ ext_signals' = Some(analyze_acoustic(ext_input.features))
    /\ UNCHANGED <<ext_input, ext_prev>>
    /\ UNCHANGED detectVars
    /\ UNCHANGED scoringVars
    /\ UNCHANGED voiceVars
    /\ UNCHANGED streamVars
    /\ UNCHANGED classifyVars

\* self._analyze_behavioral(data)
AnalyzeBehavioral ==
    /\ ext_input.kind = "behavioral"
    /\ ext_signals = None
    /\ ext_signals' = Some(analyze_behavioral(ext_input.data))
    /\ UNCHANGED <<ext_input, ext_prev>>
    /\ UNCHANGED detectVars
    /\ UNCHANGED scoringVars
    /\ UNCHANGED voiceVars
    /\ UNCHANGED streamVars
    /\ UNCHANGED classifyVars

NextExtract ==
    \/ AnalyzePatterns
    \/ ExtendText
    \/ AnalyzeAcoustic
    \/ AnalyzeBehavioral

SpecExtract == InitExtract /\ [][NextExtract]_vars

----------------------------------------------------------------------------
(* Properties of detect, checked on the calls of Spec.                     *)

LabelCategories == {"spam", "fraud", "phishing", "robocall"}

\* the four category scores of a result of detect
ResultScores(r) ==
    [spam |-> r.spam_score, fraud |-> r.fraud_score,
     phishing |-> r.phishing_score, robocall |-> r.robocall_score]

\* the thresholds the specification states, in hundredths
StatedThreshold ==
    [spam |-> 40, fraud |-> 50, phishing |-> 45, robocall |-> 50]

\* some category score is at or above its stated threshold
SomeCategoryClears(scores) ==
    \E cat \in LabelCategories :
        AtLeastHundredths(scores[cat], StatedThreshold[cat])

\* the results detect has returned so far
Returned == {r \in {result, other_result} : r # None}

----------------------------------------------------------------------------
(* _determine_classification on its own, on score bundles whose category   *)
(* scores lie on and beside the thresholds and whose overall lies on and   *)
(* beside 30 and 50.                                                       *)

\* category scores, as reduced fractions: 0, 0.39, 0.4, 0.45, 0.49, 0.5, 0.9
BundleScores ==
    { <<0, 1>>, <<39, 100>>, <<2, 5>>, <<9, 20>>, <<49, 100>>, <<1, 2>>,
      <<9, 10>> }

\* overall, in tenths: 0, 29.9, 30.0, 49.9, 50.0, 100
BundleOveralls == {0, 299, 300, 499, 500, 1000}

ScoreBundles ==
    [spam : BundleScores, fraud : BundleScores, phishing : BundleScores,
     robocall : BundleScores, overall : BundleOveralls]

InitClassify ==
    /\ cls_scores \in {Some(b) : b \in ScoreBundles}
    /\ cls_label = None
    /\ DetectIdle
    /\ ScoringIdle
    /\ VoiceIdle
    /\ StreamIdle
    /\ ExtractIdle

\* _determine_classification(scores) is called
Classify ==
    /\ cls_scores # None
    /\ cls_label = None
    /\ cls_label' = Some(determine_classification(cls_scores[1]))
    /\ UNCHANGED cls_scores
    /\ UNCHANGED detectVars
    /\ UNCHANGED scoringVars
    /\ UNCHANGED voiceVars
    /\ UNCHANGED streamVars
    /\ UNCHANGED extractVars

NextClassify == Classify

SpecClassify == InitClassify /\ [][NextClassify]_vars


\* C1: detect of the empty text with no acoustic and no behavioral data
\* returns classification "safe", risk_score 0, confidence 0.95, no signals
\* and four category scores of 0.
C1_SafeDefault ==
    (result # None /\ text = <<>> /\ acoustic_features = None
       /\ behavioral_data = None)
    => /\ result[1].classification = "safe"
       /\ result[1].risk_score = 0
       /\ result[1].confidence = <<19, 20>>
       /\ result[1].signals = <<>>
       /\ \A cat \in LabelCategories : ResultScores(result[1])[cat] = <<0, 1>>

C1_Witness ==
    /\ result # None
    /\ text = <<>>
    /\ acoustic_features = None
    /\ behavioral_data = None
    /\ calls = <<"study">>

\* C2: every result of detect has its risk_score in [0, 100] and each of its
\* four category scores in [0, 1].
C2_ScoreRanges ==
    \A r \in Returned :
        /\ r[1].risk_score \in 0..1000
        /\ \A cat \in LabelCategories :
              LET p == ResultScores(r[1])[cat]
              IN  p[2] > 0 /\ 0 <= p[1] /\ p[1] <= p[2]

\* a pressure_score above 1 has been scored: the fraud score is clipped to 1
C2_Witness ==
    /\ result # None
    /\ behavioral_data # None
    /\ Get(behavioral_data[1], "pressure_score", 0) > 100
    /\ result[1].fraud_score = <<1, 1>>

\* C3: in every result of detect, classification is "safe" if and only if
\* the overall score is below 30 and no category score clears its threshold.
C3_SafeIff ==
    \A r \in Returned :
        (r[1].classification = "safe")
        <=> (r[1].risk_score < 300 /\ ~SomeCategoryClears(ResultScores(r[1])))

\* a result that is safe although signals were found
C3_Witness ==
    /\ result # None
    /\ result[1].classification = "safe"
    /\ result[1].signals # <<>>

C10_ExactSpans ==
    result # None =>
        \A i \in 1..Len(result[1].signals) :
            LET s == result[1].signals[i]
            IN  s.type = "keyword" =>
                  \A j \in 1..Len(s.evidence) :
                      LET kw == s.evidence[j]
                      IN  Contains(Lower(text), Lower(kw)) =>
                            \E k \in 1..Len(result[1].highlighted_phrases) :
                                LET h == result[1].highlighted_phrases[k]
                                IN  /\ h.text = kw
                                    /\ 0 <= h.start
                                    /\ h.start < h.end
                                    /\ h.end <= Len(text)
                                    /\ h.end - h.start = Len(kw)
                                    /\ Lower(Slice(text, h.start, h.end))
                                         = Lower(kw)

----------------------------------------------------------------------------
(* Properties of the scoring stage, checked on the lists of SpecScoring.   *)

\* the non-general categories that have a Signal in the list
CategoriesOf(signals) ==
    {signals[i].category : i \in 1..Len(signals)} \ {"general"}

\* the summed weight, in tenths, of the Signals of a category
WeightOf(signals, cat) == CategorySum(signals, cat).w

\* C4 as stated: a signal set with overall 29.9 is classified safe, and one
\* with overall exactly 30.0 is classified non-safe.
C4_BoundaryAsStated ==
    sig_result # None =>
        /\ sig_result[1].scores.overall = 299
              => sig_result[1].classification = "safe"
        /\ sig_result[1].scores.overall = 300
              => sig_result[1].classification # "safe"

\* C4: a signal set with overall 29.9 is classified safe and so is one with
\* overall exactly 30.0; a non-safe label needs a category at its threshold
\* or an overall of 50, so it is not given below an overall of 40.
C4_Boundary ==
    sig_result # None =>
        /\ sig_result[1].scores.overall \in {299, 300}
              => sig_result[1].classification = "safe"
        /\ sig_result[1].classification # "safe"
              => /\ sig_result[1].scores.overall >= 400
                 /\ \/ SomeCategoryClears(sig_result[1].scores)
                    \/ sig_result[1].scores.overall >= 500

\* a list scored at exactly 30.0
C4_Witness ==
    /\ sig_op = "scored"
    /\ sig_result[1].scores.overall = 300
    /\ sig_result[1].classification = "safe"

\* C5: adding one high-severity keyword Signal (confidence 0.9, weight 1.5,
\* one of the four keyword categories) to a signal set never decreases the
\* overall score.
C5_Monotonic ==
    (/\ sig_op = "added"
     /\ sig_list[Len(sig_list)].category \in LabelCategories
     /\ sig_list[Len(sig_list)].confidence = 90
     /\ sig_list[Len(sig_list)].weight = 15)
    => sig_result[1].scores.overall >= sig_prev[1].result.scores.overall

\* C6: appending a Signal to a signal list never decreases the confidence,
\* the step from the empty list included.
C6_ConfidenceMonotonic ==
    sig_op = "added"
    => FracLeq(sig_prev[1].result.confidence, sig_result[1].confidence)

\* C7: when every non-general Signal is a phishing Signal, the phishing score
\* is at least 0.45 and overall is at least 30, the classification is
\* "phishing".
C7_PhishingDominance ==
    (/\ sig_result # None
     /\ CategoriesOf(sig_list) = {"phishing"}
     /\ AtLeastHundredths(sig_result[1].scores.phishing, 45)
     /\ sig_result[1].scores.overall >= 300)
    => sig_result[1].classification = "phishing"

\* phishing Signals alone, scored exactly at the threshold
C7_Witness ==
    /\ sig_op = "scored"
    /\ CategoriesOf(sig_list) = {"phishing"}
    /\ sig_result[1].scores.phishing = <<9, 20>>
    /\ sig_result[1].scores.overall >= 300
    /\ sig_result[1].classification = "phishing"

\* the list scored before Concentrate was spread over exactly two categories
SpreadOverTwo ==
    /\ sig_op = "concentrated"
    /\ Cardinality(CategoriesOf(sig_prev[1].signals)) = 2

\* C8 as stated: a signal set spread over two categories, each below its
\* threshold, has an overall at least that of the same Signals concentrated
\* in one category.
C8_BoostAsStated ==
    (/\ SpreadOverTwo
     /\ ~SomeCategoryClears(sig_prev[1].result.scores))
    => sig_prev[1].result.scores.overall >= sig_result[1].scores.overall

\* in the spread list both categories are active (score above 0.3) and each
\* carries a summed weight of at least 1.0
BothActiveAndWeighted ==
    \A cat \in CategoriesOf(sig_prev[1].signals) :
        /\ AboveHundredths(sig_prev[1].result.scores[cat], 30)
        /\ WeightOf(sig_prev[1].signals, cat) >= 10

\* C8: a signal set spread over two categories that are both active (score
\* above 0.3) and each carry a summed weight of at least 1.0 has an overall
\* at least that of the same Signals concentrated in one category.
C8_Boost ==
    (SpreadOverTwo /\ BothActiveAndWeighted)
    => sig_prev[1].result.scores.overall >= sig_result[1].scores.overall

\* two active categories below their thresholds, boosted above the
\* concentrated list
C8_Witness ==
    /\ SpreadOverTwo
    /\ BothActiveAndWeighted
    /\ ~SomeCategoryClears(sig_prev[1].result.scores)
    /\ sig_prev[1].result.scores.overall > sig_result[1].scores.overall

----------------------------------------------------------------------------
(* Optional inputs of detect, checked on the calls of Spec.                *)

\* the Signals of one signal_type in a result
SignalsOfType(r, ty) == SelectSeq(r.signals, LAMBDA s : s.type = ty)

\* the bundle key whose value raises the Signal of a description
BundleKeyOf ==
    [acoustic |->
        ("Unusually fast speaking rate detected" :> "speaking_rate"
         @@ "High voice stress detected" :> "stress_level"
         @@ "Possible synthetic/robotic voice detected" :> "synthetic_probability"
         @@ "Call center background noise detected" :> "background_noise_type"),
     behavioral |->
        ("Aggressive caller behavior - frequent interruptions"
             :> "interruptions_count"
         @@ "High-pressure tactics detected" :> "pressure_score"
         @@ "Evasive responses detected" :> "evasiveness_score")]

\* every Signal of the type comes from a key the bundle holds
FromSuppliedKeys(r, ty, bundle) ==
    \A i \in 1..Len(r.signals) :
        r.signals[i].type = ty
        => /\ bundle # None
           /\ BundleKeyOf[ty][r.signals[i].description[1]] \in DOMAIN bundle[1]

\* C11: detect returns a result whether the acoustic and behavioral bundles
\* are None, empty or lack keys; a None or empty bundle leaves no Signal of
\* its type and the result is that of the call without the bundle, and a
\* missing key raises no Signal.
C11_OptionalInputs ==
    /\ calls # <<>> => result # None
    /\ result # None =>
        /\ FromSuppliedKeys(result[1], "acoustic", acoustic_features)
        /\ FromSuppliedKeys(result[1], "behavioral", behavioral_data)
        /\ ~Truthy(acoustic_features)
              => /\ SignalsOfType(result[1], "acoustic") = <<>>
                 /\ result[1] = detect(rules, hash_seed, text, None,
                                       behavioral_data)
        /\ ~Truthy(behavioral_data)
              => /\ SignalsOfType(result[1], "behavioral") = <<>>
                 /\ result[1] = detect(rules, hash_seed, text,
                                       acoustic_features, None)

\* an empty acoustic bundle beside a behavioral bundle that lacks two keys
C11_Witness ==
    /\ result # None
    /\ acoustic_features # None
    /\ DOMAIN acoustic_features[1] = {}
    /\ behavioral_data # None
    /\ DOMAIN behavioral_data[1] = {"interruptions_count"}
    /\ Len(SignalsOfType(result[1], "behavioral")) = 1
    /\ SignalsOfType(result[1], "acoustic") = <<>>

----------------------------------------------------------------------------
(* Properties of the voice analyzer, checked on SpecVoice and SpecVoiceRule. *)

\* the call whose features were extracted from an existing file
Extracted(input) == input.exists /\ input.extraction = "ok"

\* pitch_std=5, onset_regularity=0.95, mfcc_variance=20, hnr=30, the other
\* features absent
AILeaningBundle ==
    [pitch_std |-> 5, onset_regularity |-> 950, mfcc_variance_total |-> 20,
     hnr_approx |-> 30]

\* C12: the bundle whose pitch-std, onset-regularity, MFCC-variance and HNR
\* checks are all AI-leaning, the other features absent, is classified
\* ai_generated with at least 4 AI indicators.
C12_AICase ==
    (/\ voice_result # None
     /\ Extracted(voice_input[1])
     /\ voice_input[1].features = AILeaningBundle)
    => /\ voice_result[1].classification = "ai_generated"
       /\ Len(voice_result[1].analysis_details.ai_indicators) >= 4

C12_Witness ==
    /\ voice_result # None
    /\ Extracted(voice_input[1])
    /\ voice_input[1].features = AILeaningBundle
    /\ voice_result[1].classification = "ai_generated"
    /\ voice_result[1].confidence_score = 8808

\* C13: every feature bundle whose analysis yields exactly one AI indicator
\* and exactly one human indicator is classified uncertain.
C13_UncertainCase ==
    (/\ voice_result # None
     /\ voice_result[1].status = "success"
     /\ Len(voice_result[1].analysis_details.ai_indicators) = 1
     /\ Len(voice_result[1].analysis_details.human_indicators) = 1)
    => voice_result[1].classification = "uncertain"

\* a monotone pitch against a rich timbre: the AI score leads 0.18 to 0.10
C13_Witness ==
    /\ voice_result # None
    /\ voice_result[1].status = "success"
    /\ voice_result[1].analysis_details.ai_indicators
         = <<"Pitch variation too consistent (monotonic)">>
    /\ voice_result[1].analysis_details.human_indicators
         = <<"Rich timbral characteristics">>
    /\ voice_result[1].classification = "uncertain"
    /\ voice_result[1].confidence_score = 5240

\* C14: every result AIVoiceDetector.detect returns has a classification
\* among ai_generated, human and uncertain and a confidence score in [0, 1].
C14_ResultShape ==
    voice_result # None
    => /\ voice_result[1].classification
            \in {"ai_generated", "human", "uncertain"}
       /\ voice_result[1].confidence_score \in 0..10000

\* C15: when every feature is missing from the bundle, or the extraction
\* fails and the default features are used, the result is uncertain or of
\* low confidence (below 0.7), not an ai_generated or human verdict.
C15_GracefulDegradation ==
    (/\ voice_result # None
     /\ voice_input[1].exists
     /\ \/ voice_input[1].extraction = "failed"
        \/ DOMAIN voice_input[1].features = {})
    => \/ voice_result[1].classification = "uncertain"
       \/ voice_result[1].confidence_score < 7000

\* the scores and numbers of indicators of an analysis
ScoresOf(analysis) ==
    [ai_score |-> SumSeq(analysis.ai_score_components),
     human_score |-> SumSeq(analysis.human_score_components),
     ai_indicators |-> Len(analysis.ai_indicators),
     human_indicators |-> Len(analysis.human_indicators)]

\* one side of the decision table: the verdict at the full confidence from
\* full_n indicators and a score of full_s on, at nine tenths of it from
\* part_n indicators and part_s on, and uncertain below, flat when flat holds
DecideSide(label, score, other, indicators, full_n, full_s, part_n, part_s, flat) ==
    LET c == BaseConfidence(score, score + other + 10)
    IN  IF indicators >= full_n /\ score >= full_s
        THEN [classification |-> label, confidence |-> c]
        ELSE IF indicators >= part_n /\ score >= part_s
        THEN [classification |-> label,
              confidence |-> FracTimes(c, <<9, 10>>)]
        ELSE [classification |-> "uncertain",
              confidence |-> IF flat THEN <<1, 2>>
                             ELSE ScaledConfidence(score - other)]

\* the decision table as stated: uncertain is flat 0.5 only if the leading
\* side has no indicator
StatedDecision(t) ==
    IF t.ai_score > t.human_score
    THEN DecideSide("ai_generated", t.ai_score, t.human_score, t.ai_indicators,
                    4, 35, 2, 25, t.ai_indicators < 1)
    ELSE IF t.human_score > t.ai_score
    THEN DecideSide("human", t.human_score, t.ai_score, t.human_indicators,
                    3, 30, 2, 20, t.human_indicators < 1)
    ELSE [classification |-> "uncertain", confidence |-> <<1, 2>>]

\* the decision table of the code: on the AI side uncertain is flat 0.5 if
\* there is no AI indicator or ai_score is below 0.15, on the human side it
\* is never flat
CodeDecision(t) ==
    IF t.ai_score > t.human_score
    THEN DecideSide("ai_generated", t.ai_score, t.human_score, t.ai_indicators,
                    4, 35, 2, 25, t.ai_indicators < 1 \/ t.ai_score < 15)
    ELSE IF t.human_score > t.ai_score
    THEN DecideSide("human", t.human_score, t.ai_score, t.human_indicators,
                    3, 30, 2, 20, FALSE)
    ELSE [classification |-> "uncertain", confidence |-> <<1, 2>>]

\* C16 as stated: _calculate_classification returns the decision table in
\* which an uncertain result has the score-difference-scaled confidence
\* unless the indicator count is below 1, on the AI and on the human side.
C16_DecisionAsStated ==
    rule_result # None
    => rule_result[1] = StatedDecision(ScoresOf(rule_analysis[1]))

\* C16: _calculate_classification returns the decision table in which an
\* uncertain result on the AI side has the scaled confidence only from one
\* AI indicator and an ai_score of 0.15 on (flat 0.5 below), and an uncertain
\* result on the human side always has the scaled confidence.
C16_Decision ==
    rule_result # None
    => rule_result[1] = CodeDecision(ScoresOf(rule_analysis[1]))

\* one AI indicator with an ai_score of 0.10 against no human score
C16_Witness ==
    /\ rule_result # None
    /\ ScoresOf(rule_analysis[1])
         = [ai_score |-> 10, human_score |-> 0, ai_indicators |-> 1,
            human_indicators |-> 0]
    /\ rule_result[1] = [classification |-> "uncertain", confidence |-> <<1, 2>>]
----------------------------------------------------------------------------
----------------------------------------------------------------------------
(* Properties of the streaming endpoint, checked on SpecStream.            *)

\* the messages of type ty in a sequence of messages
OfType(messages, ty) == SelectSeq(messages, LAMBDA m : m.type = ty)

\* the chunk_ids of the partial_results sent on websocket w, in order
PartialChunkIds(w) ==
    [i \in DOMAIN OfType(sent[w], "partial_result") |->
        OfType(sent[w], "partial_result")[i].chunk_id]

\* the client of w signalled the end of its stream: an "end" message, or an
\* audio chunk marked is_final
SignalledEnd(w) ==
    \E i \in DOMAIN received[w] :
        \/ received[w][i].type = "end"
        \/ /\ received[w][i].type = "audio_chunk"
           /\ received[w][i].is_final

\* C18: in every /stream/{client_id} session the partial_results sent to the
\* client are exactly one per audio_chunk received, with chunk_ids 1, 2, 3, ...
\* in order, and a session that ended after the client signalled the end of
\* the stream has sent a final_result.
C18_StreamingProtocol ==
    \A w \in DOMAIN handlers :
        /\ PartialChunkIds(w) =
               [i \in 1..Len(OfType(received[w], "audio_chunk")) |-> i]
        /\ (handlers[w].state = "closed" /\ SignalledEnd(w))
               => OfType(sent[w], "final_result") # <<>>

----------------------------------------------------------------------------
(* Keyword Signals, checked on the calls of Spec.                          *)

\* the keyword Signals behind the result of the call under study
KeywordSignals == analyze_linguistic(rules, text)

\* the table a keyword Signal comes from, read off its description
FromHindiTable(s) == s.description[2] = "Hindi"
FromUpiTable(s) == ~FromHindiTable(s) /\ s.description[4] = "UPI/payment fraud"
FromCategoryTable(s) == ~FromHindiTable(s) /\ ~FromUpiTable(s)

\* the strength of a Signal is that of its keyword's severity
StrengthBySeverity(s) ==
    IF s.description[2] = "high"
    THEN s.confidence = 90 /\ s.weight = 15
    ELSE s.confidence = 70 /\ s.weight = 10

\* the fixed strength of a region-specific hit
FixedStrength(s) == s.confidence = 85 /\ s.weight = 14

\* C19 as stated: hits of the four category tables have confidence 0.9 and
\* weight 1.5 if the keyword's severity is high, else 0.7 and 1.0; hits of the
\* Hindi table and of the UPI table have confidence 0.85 and weight 1.4.
C19_KeywordStrengthAsStated ==
    result # None =>
        \A i \in DOMAIN KeywordSignals :
            LET s == KeywordSignals[i]
            IN  IF FromCategoryTable(s) THEN StrengthBySeverity(s)
                ELSE FixedStrength(s)

\* C19: hits of the four category tables and of the UPI table have
\* confidence 0.9 and weight 1.5 if the keyword's severity is high, else 0.7
\* and 1.0; hits of the Hindi table have confidence 0.85 and weight 1.4.
C19_KeywordStrength ==
    result # None =>
        \A i \in DOMAIN KeywordSignals :
            LET s == KeywordSignals[i]
            IN  IF FromHindiTable(s) THEN FixedStrength(s)
                ELSE StrengthBySeverity(s)

\* a call whose text hits a high and a medium row of the category tables,
\* a high and a medium row of the UPI table, and the Hindi table
C19_Witness ==
    /\ result # None
    /\ \A severity \in {"high", "medium"} :
          /\ \E i \in DOMAIN KeywordSignals :
                /\ FromCategoryTable(KeywordSignals[i])
                /\ KeywordSignals[i].description[2] = severity
          /\ \E i \in DOMAIN KeywordSignals :
                /\ FromUpiTable(KeywordSignals[i])
                /\ KeywordSignals[i].description[2] = severity
    /\ \E i \in DOMAIN KeywordSignals : FromHindiTable(KeywordSignals[i])
    /\ Len(result[1].signals) >= Len(KeywordSignals)

----------------------------------------------------------------------------
(* C20.  Keyword Signals and keyword matches.                              *)

\* the entries of the three keyword tables in the order they are tested,
\* each with the category and the weight (tenths) of the Signal a hit emits
KeywordEntries ==
    Concat(MapSeq(rules.fraud_keywords,
                  LAMBDA row :
                      MapSeq(row.keywords,
                             LAMBDA k : [keyword |-> k,
                                         category |-> row.category,
                                         weight |-> IF row.severity = "high"
                                                    THEN 15 ELSE 10])))
    \o Concat(MapSeq(rules.hindi_keywords,
                     LAMBDA row :
                         MapSeq(row.keywords,
                                LAMBDA k : [keyword |-> k,
                                            category |-> row.category,
                                            weight |-> 14])))
    \o Concat(MapSeq(rules.upi_fraud_keywords,
                     LAMBDA row :
                         MapSeq(row.keywords,
                                LAMBDA k : [keyword |-> k,
                                            category |-> "fraud",
                                            weight |-> IF row.severity = "high"
                                                       THEN 15 ELSE 10])))

\* how often the keyword of a table entry occurs in the text, case ignored
MatchesOf(entry) ==
    Cardinality(Occurrences(Lower(text), Lower(entry.keyword)))

\* the table entries whose keyword occurs in the text
HitEntries == SelectSeq(KeywordEntries, LAMBDA entry : MatchesOf(entry) > 0)

\* the weights of the entries of a category, each counted times(entry) times
EntryWeight(entries, cat, times(_)) ==
    SumSeq(MapSeq(entries, LAMBDA entry : IF entry.category = cat
                                          THEN times(entry) * entry.weight
                                          ELSE 0))

\* a sequence without repeated elements
NoRepeats(s) == \A i, j \in DOMAIN s : s[i] = s[j] => i = j

\* the summary views hold each keyword, and each (type, category), once
SummariesDeduplicated ==
    /\ NoRepeats(result[1].suspicious_keywords)
    /\ {result[1].suspicious_keywords[i] :
            i \in DOMAIN result[1].suspicious_keywords}
         = {HitEntries[i].keyword : i \in DOMAIN HitEntries}
    /\ NoRepeats(MapSeq(result[1].fraud_indicators,
                        LAMBDA ind : <<ind.type, ind.category>>))

\* C20 as stated: every match of a keyword in the text emits its own
\* Signal: the number of keyword Signals is the number of keyword matches,
\* each match adds its weight to its category's weight sum, and only the
\* summary views are deduplicated.
C20_NoDeduplicationAsStated ==
    result # None =>
        /\ Len(KeywordSignals) = SumSeq(MapSeq(KeywordEntries, MatchesOf))
        /\ \A cat \in LabelCategories :
               WeightOf(KeywordSignals, cat)
                   = EntryWeight(KeywordEntries, cat, MatchesOf)
        /\ SummariesDeduplicated

\* C20: every table entry whose keyword occurs in the text emits one
\* Signal, however often the keyword occurs, and a keyword listed in several
\* table rows emits one Signal per row: the keyword Signals are the hit
\* entries in table order, each adds its weight once to its category's weight
\* sum, and only the summary views hold each keyword once.
C20_NoDeduplication ==
    result # None =>
        LET emitted == KeywordSignals
            hits == HitEntries
        IN  /\ Len(emitted) = Len(hits)
            /\ \A i \in DOMAIN emitted :
                   /\ emitted[i].evidence = <<hits[i].keyword>>
                   /\ emitted[i].category = hits[i].category
                   /\ emitted[i].weight = hits[i].weight
            /\ \A cat \in LabelCategories :
                   WeightOf(emitted, cat)
                       = EntryWeight(hits, cat, LAMBDA entry : 1)
            /\ SummariesDeduplicated

\* the text holds a keyword twice, the keyword is listed in two table rows:
\* two Signals with the same evidence, one suspicious keyword
C20_Witness ==
    /\ result # None
    /\ \E i, j \in DOMAIN HitEntries :
          /\ i # j
          /\ HitEntries[i].keyword = HitEntries[j].keyword
          /\ MatchesOf(HitEntries[i]) = 2
          /\ KeywordSignals[i].evidence = KeywordSignals[j].evidence
    /\ Len(result[1].suspicious_keywords) < Len(KeywordSignals)

----------------------------------------------------------------------------
(* Properties of the extractors, checked on SpecExtract.                   *)

\* the four pattern families: the description and category of the family's
\* Signal, the pieces of PatternTokens that hold a match of the family (in
\* the order of the family's patterns, as re.findall returns them from the
\* lowered text), base / step / cap of the confidence in hundredths, and the
\* most evidence the Signal carries
PatternFamilies ==
    { [description |-> <<"High urgency language detected">>,
       category |-> "general",
       matches |-> << <<"i","m","m","e","d","i","a","t","e","l","y">>,
                      <<"u","r","g","e","n","t","l","y">> >>,
       base |-> 50, step |-> 10, cap |-> 95, most |-> 5],
      [description |-> <<"Threatening language detected">>,
       category |-> "fraud",
       matches |-> << <<"s","u","e">> >>,
       base |-> 60, step |-> 10, cap |-> 95, most |-> 5],
      [description |-> <<"Request for sensitive information detected">>,
       category |-> "phishing",
       matches |-> << <<"v","e","r","i","f","y"," ","y","o","u","r"," ",
                        "a","c","c","o","u","n","t">> >>,
       base |-> 90, step |-> 0, cap |-> 90, most |-> 3],
      [description |-> <<"Automated call patterns detected">>,
       category |-> "robocall",
       matches |-> << <<"p","r","e","s","s"," ","1">> >>,
       base |-> 85, step |-> 0, cap |-> 85, most |-> 3] }

\* the pieces of the text that hold the match m
PiecesWith(pieces, m) ==
    SelectSeq(pieces, LAMBDA piece : Lower(piece) = m \o <<" ">>)

\* the matches of a family in the text made of pieces: for each pattern of the
\* family in turn, its matches from left to right
MatchesIn(pieces, family) ==
    Concat(MapSeq(family.matches,
                  LAMBDA m : MapSeq(PiecesWith(pieces, m), LAMBDA piece : m)))

\* the Signals of a family among the Signals returned
FamilySignals(signals, family) ==
    SelectSeq(signals, LAMBDA s : s.description = family.description)

\* the Signals _analyze_patterns returned follow the rule of their families
PatternRule(pieces, signals) ==
    /\ Len(signals) <= 4
    /\ \A i \in DOMAIN signals :
          /\ signals[i].signal_type = "pattern"
          /\ \E family \in PatternFamilies :
                signals[i].description = family.description
    /\ \A family \in PatternFamilies :
          LET found == MatchesIn(pieces, family)
              own == FamilySignals(signals, family)
          IN  IF found = <<>> THEN own = <<>>
              ELSE /\ Len(own) = 1
                   /\ own[1].category = family.category
                   /\ own[1].confidence =
                          Min(family.base + Len(found) * family.step, family.cap)
                   /\ own[1].confidence <= family.cap
                   /\ own[1].evidence =
                          SubSeq(found, 1, Min(Len(found), family.most))

\* C21: each pattern family emits one aggregate Signal when it has a match
\* and none otherwise, at most 4 pattern Signals in all; the confidence is
\* min(base + count*step, cap) of the family, never above the cap and never
\* lower after a further match was added to the text; the evidence is the
\* first matches, at most 5 (urgency, threat) or 3 (request, robocall).
C21_PatternFamilies ==
    (ext_signals # None /\ ext_input.kind = "patterns") =>
        /\ PatternRule(ext_input.pieces, ext_signals[1])
        /\ ext_prev # None =>
              \A i \in DOMAIN ext_prev[1] :
                  \E j \in DOMAIN ext_signals[1] :
                      /\ ext_signals[1][j].description = ext_prev[1][i].description
                      /\ ext_signals[1][j].confidence >= ext_prev[1][i].confidence

\* six urgency matches of two patterns: the confidence is at the cap, as it
\* was with five, and the evidence is the first five of the six
C21_Witness ==
    /\ ext_signals # None
    /\ ext_prev # None
    /\ ext_input.kind = "patterns"
    /\ Len(ext_input.pieces) = 6
    /\ \E family \in PatternFamilies :
          /\ family.category = "general"
          /\ Len(MatchesIn(ext_input.pieces, family)) = 6
          /\ Len(PiecesWith(ext_input.pieces, family.matches[1])) = 2
    /\ Len(ext_signals[1]) = 1
    /\ ext_signals[1][1].confidence = 95
    /\ Len(ext_signals[1][1].evidence) = 5
    /\ ext_prev[1][1].confidence = 95

\* ---------------------------------------------------------------------------
\* C22

\* the seven acoustic and behavioral checks: the key read, the kind of input
\* it is read from, the threshold (numbers), the description of the Signal,
\* the weight, and the confidence where it is a literal of the check
ThresholdChecks ==
    { [key |-> "speaking_rate", kind |-> "acoustic", above |-> 200,
       description |-> <<"Unusually fast speaking rate detected">>,
       weight |-> 11, literal |-> Some(70)],
      [key |-> "stress_level", kind |-> "acoustic", above |-> 70,
       description |-> <<"High voice stress detected">>,
       weight |-> 12, literal |-> None],
      [key |-> "synthetic_probability", kind |-> "acoustic", above |-> 60,
       description |-> <<"Possible synthetic/robotic voice detected">>,
       weight |-> 15, literal |-> None],
      [key |-> "interruptions_count", kind |-> "behavioral", above |-> 5,
       description |-> <<"Aggressive caller behavior - frequent interruptions">>,
       weight |-> 11, literal |-> Some(65)],
      [key |-> "pressure_score", kind |-> "behavioral", above |-> 70,
       description |-> <<"High-pressure tactics detected">>,
       weight |-> 14, literal |-> None],
      [key |-> "evasiveness_score", kind |-> "behavioral", above |-> 60,
       description |-> <<"Evasive responses detected">>,
       weight |-> 12, literal |-> Some(70)] }

\* the check on the kind of background noise
NoiseCheck ==
    [key |-> "background_noise_type", kind |-> "acoustic",
     description |-> <<"Call center background noise detected">>,
     weight |-> 10, literal |-> Some(60)]

\* the dict the extraction of this state was given
ExtractDict ==
    IF ext_input.kind = "acoustic" THEN ext_input.features ELSE ext_input.data

\* the check's comparison holds of the dict
CheckHolds(check, d) ==
    /\ check.key \in DOMAIN d
    /\ IF check = NoiseCheck THEN d[check.key] = "call_center"
       ELSE d[check.key] > check.above

\* the Signals of a check among the Signals returned
CheckSignals(signals, check) ==
    SelectSeq(signals, LAMBDA s : s.description = check.description)

\* every check of the kind emits one Signal exactly when its comparison holds
EmitsWhenAbove(kind, d, signals) ==
    \A check \in { c \in ThresholdChecks \cup {NoiseCheck} : c.kind = kind } :
        /\ Len(CheckSignals(signals, check)) = (IF CheckHolds(check, d) THEN 1 ELSE 0)
        /\ \A i \in DOMAIN signals :
              /\ signals[i].signal_type = kind
              /\ \E c \in ThresholdChecks \cup {NoiseCheck} :
                    c.kind = kind /\ signals[i].description = c.description

\* a dict that triggers the check with a value further above the threshold
ReferenceDict(check) ==
    IF check = NoiseCheck THEN [background_noise_type |-> "call_center"]
    ELSE [k \in {check.key} |-> check.above + 40]

\* the Signal the extraction returns for the reference dict of a check
ReferenceSignal(check) ==
    IF check.kind = "acoustic" THEN analyze_acoustic(ReferenceDict(check))[1]
    ELSE analyze_behavioral(ReferenceDict(check))[1]

\* C22 as stated: each check emits at most one Signal, exactly when its strict
\* comparison holds, and the Signal's confidence and weight are the same
\* whatever the input value: those of the Signal emitted for any other value.
C22_FixedStrengthAsStated ==
    (ext_signals # None /\ ext_input.kind \in {"acoustic", "behavioral"}) =>
        /\ EmitsWhenAbove(ext_input.kind, ExtractDict, ext_signals[1])
        /\ \A check \in ThresholdChecks \cup {NoiseCheck} :
              \A i \in DOMAIN CheckSignals(ext_signals[1], check) :
                 LET s == CheckSignals(ext_signals[1], check)[i]
                 IN  /\ s.confidence = ReferenceSignal(check).confidence
                     /\ s.weight = ReferenceSignal(check).weight

\* C22: each check emits at most one Signal, exactly when its strict
\* comparison holds (a value on the threshold or a missing key emits
\* nothing); the weight is fixed per check; the confidence is fixed for
\* speaking rate (0.7), background noise (0.6), interruptions (0.65) and
\* evasiveness (0.7), and is the input value itself for stress_level,
\* synthetic_probability and pressure_score, hence above the threshold and
\* not bounded by 1.
C22_CheckStrength ==
    (ext_signals # None /\ ext_input.kind \in {"acoustic", "behavioral"}) =>
        /\ EmitsWhenAbove(ext_input.kind, ExtractDict, ext_signals[1])
        /\ \A check \in ThresholdChecks \cup {NoiseCheck} :
              \A i \in DOMAIN CheckSignals(ext_signals[1], check) :
                 LET s == CheckSignals(ext_signals[1], check)[i]
                 IN  /\ s.weight = check.weight
                     /\ s.confidence =
                           (IF check.literal # None THEN check.literal[1]
                            ELSE ExtractDict[check.key])
                     /\ check.literal = None => s.confidence > check.above

\* a pressure_score of 1.5 with an evasiveness on its threshold: one Signal,
\* of confidence 1.5; and a stress of 0.9 beside a synthetic probability on
\* its threshold
C22_Witness ==
    /\ ext_signals # None
    /\ \/ /\ ext_input.kind = "behavioral"
          /\ DOMAIN ext_input.data = {"pressure_score", "evasiveness_score"}
          /\ ext_input.data["pressure_score"] = 150
          /\ ext_input.data["evasiveness_score"] = 60
          /\ Len(ext_signals[1]) = 1
          /\ ext_signals[1][1].confidence = 150
       \/ /\ ext_input.kind = "acoustic"
          /\ DOMAIN ext_input.features = {"stress_level", "synthetic_probability"}
          /\ ext_input.features["stress_level"] = 90
          /\ ext_input.features["synthetic_probability"] = 60
          /\ Len(ext_signals[1]) = 1
          /\ ext_signals[1][1].confidence = 90

\* ---------------------------------------------------------------------------
\* C23

\* <<sum(confidence*weight), sum(weight)>> over the Signals of the category
RECURSIVE Totals(_, _)
Totals(signals, cat) ==
    IF signals = <<>> THEN <<0, 0>>
    ELSE LET rest == Totals(Tail(signals), cat)
             sg == Head(signals)
         IN  IF sg.category = cat
             THEN <<sg.confidence * sg.weight + rest[1], sg.weight + rest[2]>>
             ELSE rest

\* the fraction p is min(1, sum(confidence*weight) / max(sum(weight), 1)) over
\* the Signals of the category: confidence in hundredths and weight in
\* tenths, compared by cross-multiplication
IsWeightedMean(p, signals, cat) ==
    LET t == Totals(signals, cat)
        den == 100 * (IF t[2] > 10 THEN t[2] ELSE 10)
    IN  IF \A i \in DOMAIN signals : signals[i].category # cat THEN p[1] = 0
        ELSE p[1] * den = (IF t[1] < den THEN t[1] ELSE den) * p[2]

\* the stated overall of the scores and the general score gs, in tenths, as a
\* pair <<numerator, denominator>>:
\* min(100, max * category_boost * general_modifier * 100)
StatedOverall(scores, gs) ==
    LET top == CHOOSE p \in {scores[cat] : cat \in LabelCategories} :
                  \A cat \in LabelCategories :
                      scores[cat][1] * p[2] <= p[1] * scores[cat][2]
        active == Cardinality({cat \in LabelCategories :
                                  scores[cat][1] * 10 > 3 * scores[cat][2]})
                  + (IF gs[1] * 10 > 3 * gs[2] THEN 1 ELSE 0)
        boost == IF active > 1 THEN 10 + (active - 1) ELSE 10
        num == 20 * top[1] * boost * (5 * gs[2] + gs[1])
        den == top[2] * gs[2]
    IN  IF num > 1000 * den THEN <<1000 * den, den>> ELSE <<num, den>>

\* the general score of the list: a fraction that is its weighted mean
GeneralScore ==
    CHOOSE p \in {CategoryScore(sig_list, "general")} :
        IsWeightedMean(p, sig_list, "general")

\* the category scores returned are the stated weighted means
C23_CategoryMeans ==
    \A cat \in LabelCategories :
        IsWeightedMean(sig_result[1].scores[cat], sig_list, cat)

\* C23 as stated: each category score is min(1, sum(confidence*weight) /
\* max(sum(weight), 1)), and overall equals
\* min(100, max * category_boost * general_modifier * 100).
C23_AggregationAsStated ==
    sig_result # None =>
        /\ C23_CategoryMeans
        /\ LET stated == StatedOverall(sig_result[1].scores, GeneralScore)
           IN  sig_result[1].scores.overall * stated[2] = stated[1]

\* C23: each category score is min(1, sum(confidence*weight) /
\* max(sum(weight), 1)) over the Signals of the category (0 when there are
\* none), and overall is min(100, max * category_boost * general_modifier *
\* 100) rounded to one decimal (a tie to the even digit), where the
\* categories counted as active include general.
C23_Aggregation ==
    sig_result # None =>
        /\ C23_CategoryMeans
        /\ LET stated == StatedOverall(sig_result[1].scores, GeneralScore)
               overall == sig_result[1].scores.overall
               below == overall * stated[2] <= stated[1]
               gap == IF below THEN stated[1] - overall * stated[2]
                      ELSE overall * stated[2] - stated[1]
           IN  /\ 2 * gap <= stated[2]
               /\ 2 * gap = stated[2] => overall % 2 = 0

\* a list with two active categories and a general Signal whose stated overall
\* has a second decimal: the overall returned is the rounded one
C23_Witness ==
    /\ sig_result # None
    /\ Len(sig_list) >= 3
    /\ \E i \in DOMAIN sig_list : sig_list[i].category = "general"
    /\ Cardinality({cat \in LabelCategories :
                       AboveHundredths(sig_result[1].scores[cat], 30)}) >= 2
    /\ sig_result[1].scores.overall < 1000
    /\ LET stated == StatedOverall(sig_result[1].scores, GeneralScore)
       IN  sig_result[1].scores.overall * stated[2] # stated[1]

\* ---------------------------------------------------------------------------
\* C24, C25

\* the order in which ties for the highest score are settled
TieOrder == <<"spam", "fraud", "phishing", "robocall">>

\* the categories of the bundle that no other category beats
Highest(scores) ==
    { cat \in LabelCategories :
        \A other \in LabelCategories :
            scores[other][1] * scores[cat][2] <= scores[cat][1] * scores[other][2] }

\* the first of the highest categories in the order of TieOrder
FirstHighest(scores) ==
    TieOrder[CHOOSE i \in 1..4 :
                /\ TieOrder[i] \in Highest(scores)
                /\ \A j \in 1..4 : TieOrder[j] \in Highest(scores) => i <= j]

\* the category's score is at or above the category's own threshold
Clears(scores, cat) ==
    scores[cat][1] * 100 >= StatedThreshold[cat] * scores[cat][2]

\* C24: for every score bundle the label is 'safe' if overall < 30; otherwise
\* the category with the highest score if that score is at or above the
\* category's own threshold (spam 0.4, fraud 0.5, phishing 0.45, robocall
\* 0.5); otherwise 'spam' if overall >= 50 and 'safe' if overall < 50.
C24_ClassificationRule ==
    cls_label # None =>
        LET scores == cls_scores[1]
            label == cls_label[1]
        IN  /\ scores.overall < 300 => label = "safe"
            /\ scores.overall >= 300 =>
                  /\ label \in Highest(scores) \cup {"spam", "safe"}
                  /\ (\A cat \in Highest(scores) : Clears(scores, cat))
                        => label \in Highest(scores)
                  /\ (\A cat \in Highest(scores) : ~Clears(scores, cat))
                        => label = (IF scores.overall >= 500 THEN "spam"
                                    ELSE "safe")
                  /\ (label \in Highest(scores) /\ ~Clears(scores, label))
                        => (label = "spam" /\ scores.overall >= 500)

\* a bundle of overall 50.0 whose one highest category, fraud at 0.49, is under
\* its threshold: the label is the fallback, spam, which scored 0.39
C24_Witness ==
    /\ cls_label = Some("spam")
    /\ cls_scores[1].overall = 500
    /\ Highest(cls_scores[1]) = {"fraud"}
    /\ cls_scores[1].fraud = <<49, 100>>
    /\ cls_scores[1].spam = <<39, 100>>

\* C25: when two or more categories share the highest score, the category
\* taken as the highest is the first of them in the order spam, fraud,
\* phishing, robocall, and the threshold compared against is that category's:
\* the label is that category when it clears its threshold, and the fallback
\* label when it does not, whatever the other tied categories would do.
C25_TieBreak ==
    (cls_label # None /\ cls_scores[1].overall >= 300
        /\ Cardinality(Highest(cls_scores[1])) >= 2) =>
        LET scores == cls_scores[1]
            first == FirstHighest(scores)
        IN  cls_label[1] = (IF Clears(scores, first) THEN first
                            ELSE IF scores.overall >= 500 THEN "spam"
                            ELSE "safe")

\* fraud and phishing tied at 0.45 with overall 49.9: fraud is taken, it is
\* under 0.5, and the label is safe although phishing is at its own threshold
C25_Witness ==
    /\ cls_label = Some("safe")
    /\ cls_scores[1].overall = 499
    /\ Highest(cls_scores[1]) = {"fraud", "phishing"}
    /\ cls_scores[1].fraud = <<9, 20>>
    /\ Clears(cls_scores[1], "phishing")
    /\ ~Clears(cls_scores[1], "fraud")

\* ---------------------------------------------------------------------------
\* C26

\* the (signal_type, category) pair of a returned Signal or of an indicator
PairOf(entry) == <<entry.type, entry.category>>

\* the position of the first returned Signal with the pair
FirstSeen(signals, pair) ==
    CHOOSE i \in DOMAIN signals :
        /\ PairOf(signals[i]) = pair
        /\ \A j \in 1..(i - 1) : PairOf(signals[j]) # pair

\* the severity tier of a confidence in hundredths
SeverityTier(confidence) ==
    IF confidence > 80 THEN "high"
    ELSE IF confidence > 50 THEN "medium"
    ELSE "low"

\* C26: fraud_indicators has exactly one entry per distinct (signal_type,
\* category) pair among the Signals, in first-seen order, each with the
\* description of the first Signal of the pair and the severity tier of that
\* Signal's confidence (> 0.8 high, > 0.5 medium, else low);
\* suspicious_keywords is the duplicate-free set of the evidence strings of
\* the Signals of signal_type 'keyword'.
C26_IndicatorSummary ==
    result # None =>
        LET signals == result[1].signals
            indicators == result[1].fraud_indicators
            keywords == result[1].suspicious_keywords
        IN  /\ {PairOf(indicators[k]) : k \in DOMAIN indicators}
                 = {PairOf(signals[i]) : i \in DOMAIN signals}
            /\ \A k, l \in DOMAIN indicators :
                  k < l => FirstSeen(signals, PairOf(indicators[k]))
                             < FirstSeen(signals, PairOf(indicators[l]))
            /\ \A k \in DOMAIN indicators :
                  LET sg == signals[FirstSeen(signals, PairOf(indicators[k]))]
                  IN  /\ indicators[k].description = sg.description
                      /\ indicators[k].severity = SeverityTier(sg.confidence)
            /\ NoRepeats(keywords)
            /\ {keywords[k] : k \in DOMAIN keywords}
                 = UNION { {signals[i].evidence[j] : j \in DOMAIN signals[i].evidence} :
                             i \in {i \in DOMAIN signals : signals[i].type = "keyword"} }

\* a call whose Signals hold a pair twice, first with a confidence of the high
\* tier and later with one of the medium tier, beside Signals of two more
\* signal_types: the indicator of the pair is the high one
C26_Witness ==
    /\ result # None
    /\ Len(result[1].fraud_indicators) >= 4
    /\ Len(result[1].suspicious_keywords) >= 1
    /\ \E t1, t2 \in {"pattern", "acoustic", "behavioral"} :
          /\ t1 # t2
          /\ SignalsOfType(result[1], t1) # <<>>
          /\ SignalsOfType(result[1], t2) # <<>>
    /\ \E i, j \in DOMAIN result[1].signals :
          /\ i < j
          /\ PairOf(result[1].signals[i]) = PairOf(result[1].signals[j])
          /\ FirstSeen(result[1].signals, PairOf(result[1].signals[i])) = i
          /\ SeverityTier(result[1].signals[i].confidence) = "high"
          /\ SeverityTier(result[1].signals[j].confidence) = "medium"

\* ---------------------------------------------------------------------------
\* C27

\* the positions (0-based) of the text at which the string occurs up to case
OccurrencesUpToCase(t, e) ==
    {p \in 0..(Len(t) - Len(e)) : Lower(Slice(t, p, p + Len(e))) = Lower(e)}

\* the evidence strings of the returned Signals, each with its Signal
EvidenceOf(r) ==
    UNION { {<<i, j>> : j \in DOMAIN r.signals[i].evidence} :
              i \in DOMAIN r.signals }

\* C27: for every evidence string of every Signal that occurs in the text a
\* span is emitted that starts at the first occurrence of the string up to
\* case, and no span starts at a later occurrence; an evidence string that
\* does not occur in the text emits no span; the severity of a span is high
\* if the confidence of its Signal is above 0.8, else medium.
C27_FirstOccurrenceOnly ==
    result # None =>
        LET spans == result[1].highlighted_phrases
        IN  /\ \A ij \in EvidenceOf(result[1]) :
                  LET sg == result[1].signals[ij[1]]
                      e == sg.evidence[ij[2]]
                      occ == OccurrencesUpToCase(text, e)
                  IN  IF occ = {}
                      THEN \A k \in DOMAIN spans : spans[k].text # e
                      ELSE \E k \in DOMAIN spans :
                              /\ spans[k].text = e
                              /\ spans[k].category = sg.category
                              /\ spans[k].start = SetMin(occ)
                              /\ spans[k].severity =
                                    (IF sg.confidence > 80 THEN "high"
                                     ELSE "medium")
            /\ \A k \in DOMAIN spans :
                  LET occ == OccurrencesUpToCase(text, spans[k].text)
                  IN  occ # {} /\ spans[k].start = SetMin(occ)

\* ---------------------------------------------------------------------------
\* C28

\* the returned Signals of a result that fall in spam, fraud, phishing or
\* robocall
LabelledSignals(r) ==
    {i \in DOMAIN r.signals : r.signals[i].category \in LabelCategories}

\* the result is one the built-in tables can produce, as stated
ReachableShape(r) ==
    LET scores == ResultScores(r)
    IN  /\ r.classification = "safe" <=> LabelledSignals(r) = {}
        /\ \A i \in LabelledSignals(r) :
              scores[r.signals[i].category][1] * 10
                  >= 6 * scores[r.signals[i].category][2]
        /\ r.risk_score = 0 \/ r.risk_score >= 600
        /\ r.classification # "safe" =>
              /\ r.classification \in Highest(scores)
              /\ r.classification = FirstHighest(scores)
              /\ Clears(scores, r.classification)
        /\ LabelledSignals(r) = {} => r.risk_score = 0

\* C28: for every text and every acoustic/behavioral bundle, the
\* classification is safe exactly when no Signal falls in spam, fraud,
\* phishing or robocall; any such Signal makes its category score at least
\* 0.6, so risk_score is 0 or at least 60; the non-safe label is the highest
\* category, at or above its threshold (the fallback to spam is never taken);
\* Signals in the general category alone leave risk_score at 0.
C28_ReachableResults ==
    \A r \in Returned : ReachableShape(r[1])

\* a call whose only labelled Signal is the call-center noise, beside a
\* general Signal: spam scores exactly 0.6 and is the label, risk_score above 60
C28_Witness ==
    /\ result # None
    /\ Cardinality(LabelledSignals(result[1])) = 1
    /\ \E i \in DOMAIN result[1].signals : result[1].signals[i].category = "general"
    /\ result[1].spam_score = <<3, 5>>
    /\ result[1].classification = "spam"
    /\ result[1].risk_score >= 600

\* ---------------------------------------------------------------------------
\* C29

\* the analysis _analyze_features makes of the bundle of the call
AnalysisOfCall ==
    analyze_features(extract_features(voice_input[1]),
                     DetectedLanguage(voice_input[1]))

\* score > other as the code compares them, on the float sums: the exact sums
\* differ that way, or they are equal and the float sums of their different
\* components can differ
LeadsAsComputed(score, other) ==
    \/ score > other
    \/ /\ score = other
       /\ \E rounding \in Roundings(AnalysisOfCall) : rounding.order # 0

\* C29: for every feature bundle, classification ai_generated implies
\* ai_score > human_score and at least 2 AI indicators, classification human
\* implies human_score > ai_score and at least 2 human indicators, and the
\* returned confidence lies in [0.5, 0.95].
C29_StrictLead ==
    (voice_result # None /\ voice_result[1].status = "success") =>
        LET t == ScoresOf(AnalysisOfCall)
        IN  /\ voice_result[1].classification = "ai_generated" =>
                  /\ LeadsAsComputed(t.ai_score, t.human_score)
                  /\ t.ai_indicators >= 2
                  /\ Len(voice_result[1].analysis_details.ai_indicators) >= 2
            /\ voice_result[1].classification = "human" =>
                  /\ LeadsAsComputed(t.human_score, t.ai_score)
                  /\ t.human_indicators >= 2
                  /\ Len(voice_result[1].analysis_details.human_indicators) >= 2
            /\ voice_result[1].confidence_score >= 5000
            /\ voice_result[1].confidence_score <= 9500

\* a human verdict given on two human indicators against two AI indicators,
\* the human score ahead, at a confidence under 0.7
C29_Witness ==
    /\ voice_result # None
    /\ voice_result[1].status = "success"
    /\ voice_result[1].classification = "human"
    /\ Len(voice_result[1].analysis_details.human_indicators) = 2
    /\ Len(voice_result[1].analysis_details.ai_indicators) = 2
    /\ ScoresOf(AnalysisOfCall).human_score > ScoresOf(AnalysisOfCall).ai_score
    /\ voice_result[1].confidence_score < 7000

\* ---------------------------------------------------------------------------
\* C30

\* the websockets whose handler is between its connect and its disconnect
RunningSessions == {w \in DOMAIN handlers : handlers[w].state = "open"}

\* C30: under any interleaving of sessions, two with the same client_id
\* included, while a session's handler is between its connect and its final
\* disconnect the ConnectionManager holds an active_connections entry and an
\* analysis_sessions entry for its client_id, and the connection entry, to
\* which the session's messages are sent, is the session's own websocket; no
\* session's ending removes or redirects the registration of another.
C30_SessionRegistry ==
    \A w \in RunningSessions :
        /\ handlers[w].client_id \in DOMAIN active_connections
        /\ handlers[w].client_id \in analysis_sessions
        /\ active_connections[handlers[w].client_id] = w

====
